---------------------------- MODULE Spec2Model ----------------------------
(***************************************************************************)
(* Report bundle assembly of the DreamLayer backend.                       *)
(*                                                                         *)
(* Two bundle generators are modelled, each call as a small process that   *)
(* walks through the statements of create_report_bundle:                   *)
(*   - ReportGenerator (report_generator.py), keyed on gallery images;     *)
(*   - ReportBundleGenerator (report_bundle.py), keyed on the run registry.*)
(* A stand-alone use of ImageRecord.validate_csv_schema on an arbitrary    *)
(* CSV file is modelled as well.                                           *)
(*                                                                         *)
(* Conventions.                                                            *)
(*   - A path is the tuple of its components: <<"reports", "r.zip">> is    *)
(*     reports/r.zip.  A file name taken from the data is a tuple too, so  *)
(*     that a name with separators or ".." is a value of the model.        *)
(*   - The file system is `dirs` (the directories) and `files` (a function *)
(*     from the path of each regular file to its content).                 *)
(*   - A dict of the Python code is a function on the keys it has:         *)
(*     d.get(k, v) is  IF k \in DOMAIN d THEN d[k] ELSE v.                 *)
(*   - None is the empty tuple <<>> where a value is Optional.             *)
(***************************************************************************)
EXTENDS Integers, Sequences, FiniteSets, TLC

(***************************************************************************)
(* Bounds of the model.                                                    *)
(***************************************************************************)
MaxImages == 2      \* images in a gallery snapshot, over all its lists
MaxRuns   == 2      \* runs in the registry
NumCalls  == 2      \* create_report_bundle calls in one behaviour
MaxClock  == 1      \* the clock (in seconds) runs from 0 to MaxClock
MaxRows   == 1      \* data rows of an externally produced CSV
NumInstances == 2   \* RunRegistry instances opened on the storage file

Procs == 1..NumCalls

Instances == 1..NumInstances

None == <<>>

(***************************************************************************)
(* Small helpers on sequences and functions.                               *)
(***************************************************************************)
Range(s) == {s[i] : i \in DOMAIN s}

Get(d, k, default) == IF k \in DOMAIN d THEN d[k] ELSE default

RECURSIVE Concat(_)
Concat(ss) == IF ss = <<>> THEN <<>> ELSE Head(ss) \o Concat(Tail(ss))

RECURSIVE SumLen(_)
SumLen(ss) == IF ss = <<>> THEN 0 ELSE Len(Head(ss)) + SumLen(Tail(ss))

\* the sequences over S of length at most n
SeqsUpTo(S, n) == UNION {[1..k -> S] : k \in 0..n}

\* the permutations of a finite set, as sequences
Perms(S) == {s \in [1..Cardinality(S) -> S] : Range(s) = S}

(***************************************************************************)
(* Paths.  os.path.join is concatenation; the operating system (and        *)
(* os.path.relpath / normpath) resolve "." and ".." components.            *)
(***************************************************************************)
RECURSIVE Norm(_, _)
Norm(acc, rest) ==
    IF rest = <<>> THEN acc
    ELSE IF Head(rest) \in {".", ""} THEN Norm(acc, Tail(rest))
    ELSE IF Head(rest) = ".."
         THEN Norm(IF acc = <<>> THEN acc ELSE SubSeq(acc, 1, Len(acc) - 1), Tail(rest))
    ELSE Norm(Append(acc, Head(rest)), Tail(rest))

Join(dir, rel) == Norm(<<>>, dir \o rel)

Dirname(p) == IF p = <<>> THEN p ELSE SubSeq(p, 1, Len(p) - 1)

IsPrefix(d, p) == Len(d) <= Len(p) /\ SubSeq(p, 1, Len(d)) = d

StrictlyUnder(d, p) == IsPrefix(d, p) /\ Len(p) > Len(d)

\* os.path.relpath(p, d) for p under d
Relpath(p, d) == SubSeq(p, Len(d) + 1, Len(p))

Prefixes(p) == {SubSeq(p, 1, k) : k \in 0..Len(p)}

(***************************************************************************)
(* The directories the two generators work in.                             *)
(***************************************************************************)
reports_dir       == <<"reports">>                  \* ReportGenerator.reports_dir
served_images_dir == <<"served_images">>            \* ReportGenerator.served_images_dir
cwd               == <<"cwd">>                      \* working directory of report_bundle.py
output_dir        == cwd \o <<"Dream_Layer_Resources", "output">>

(***************************************************************************)
(* File system primitives, as pure operators on (dirs, files).             *)
(***************************************************************************)
Exists(ds, fs, p) == p \in ds \/ p \in DOMAIN fs

\* open(p, 'w') succeeds iff the parent is a directory and p is no directory
CanWrite(ds, fs, p) == Dirname(p) \in ds /\ p \notin ds

PutFile(fs, p, content) ==
    [q \in (DOMAIN fs) \cup {p} |-> IF q = p THEN content ELSE fs[q]]

DropFiles(fs, gone) == [q \in (DOMAIN fs) \ gone |-> fs[q]]

\* os.makedirs(p, exist_ok=True) succeeds iff no prefix of p is a regular file
CanMakedirs(fs, p) == \A q \in Prefixes(p) : q \notin DOMAIN fs

Makedirs(ds, p) == ds \cup (Prefixes(p) \ {<<>>})

\* shutil.rmtree(d)
RmtreeDirs(ds, d) == {q \in ds : ~IsPrefix(d, q)}
RmtreeFiles(fs, d) == DropFiles(fs, {q \in DOMAIN fs : IsPrefix(d, q)})

\* os.walk(d): the regular files below d
Walk(fs, d) == {q \in DOMAIN fs : StrictlyUnder(d, q)}

Blob == [kind |-> "blob"]

\* what a path holds: << >> if no file is there, else << its content >>
Held(fs, p) == IF p \in DOMAIN fs THEN << fs[p] >> ELSE << >>


(***************************************************************************)
(* Record schema (ImageRecord) and CSV files.                              *)
(*                                                                         *)
(* A CSV file is [kind |-> "csv", header, rows]: header is the tuple of    *)
(* the column names of its first line (None for a file with no line at     *)
(* all), rows the tuple of its data rows, each a function from the header  *)
(* columns to cells.  A cell is what the csv module writes: the text of    *)
(* the value, "" for None.  Path-valued cells are kept as component        *)
(* tuples, <<>> being the empty text.                                      *)
(***************************************************************************)
RequiredColumns ==
    << "id", "filename", "relative_path", "prompt", "negative_prompt",
       "model_name", "sampler_name", "steps", "cfg_scale", "width",
       "height", "seed", "timestamp", "generation_type", "batch_index" >>

OptionalFields ==
    << "denoising_strength", "input_image_path", "lora_models",
       "controlnet_info", "file_size_bytes" >>

\* the fields of the dataclass, in declaration order: asdict(record).keys()
ImageRecordFields == RequiredColumns \o OptionalFields

IntFields == {"steps", "width", "height", "seed", "batch_index"}

TextFields == {"id", "prompt", "negative_prompt", "model_name", "sampler_name",
               "timestamp", "generation_type"}

\* A text longer than csv.field_size_limit() (131072 characters, which the
\* code never raises): the csv writer writes it, the csv reader refuses it
\* with _csv.Error("field larger than field limit").
OversizedTexts == {"<prompt of 131073 characters>"}

\* str(v) as csv.DictWriter writes the value v of field f
CsvCell(f, v) ==
    IF f \in IntFields THEN ToString(v)
    ELSE IF f \in Range(OptionalFields) THEN (IF v = None THEN "" ELSE v[1])
    ELSE v

\* asdict(record) written as one row under the given fieldnames
CsvRow(fieldnames, record) ==
    [f \in Range(fieldnames) |-> CsvCell(f, record[f])]

\* a writer that always writes the required columns only
write_csv_required_only(records) ==
    [kind |-> "csv", header |-> RequiredColumns,
     rows |-> [i \in DOMAIN records |-> CsvRow(RequiredColumns, records[i])]]

\* ReportGenerator.write_csv: the content of the file it writes
write_csv(records) ==
    IF records = <<>>
    THEN [kind |-> "csv", header |-> RequiredColumns, rows |-> <<>>]
    ELSE [kind |-> "csv", header |-> ImageRecordFields,
          rows |-> [i \in DOMAIN records |-> CsvRow(ImageRecordFields, records[i])]]

\* iterating a csv.DictReader over the data rows raises on an oversized field
ReaderRaises(csv) ==
    \E i \in DOMAIN csv.rows :
        \E c \in (DOMAIN csv.rows[i]) \cap TextFields : csv.rows[i][c] \in OversizedTexts

\* reader.fieldnames or []
ActualColumns(csv) == IF csv.header = None THEN <<>> ELSE csv.header

ValidationError ==
    [valid |-> FALSE, error |-> "error", required_columns |-> RequiredColumns]

\* a validation that also rejects a header with extra columns
validate_csv_schema_strict(fs, csv_path) ==
    IF csv_path \notin DOMAIN fs THEN ValidationError
    ELSE IF fs[csv_path].kind # "csv" THEN ValidationError
    ELSE IF ReaderRaises(fs[csv_path]) THEN ValidationError
    ELSE LET actual_cols  == ActualColumns(fs[csv_path])
             missing_cols == Range(RequiredColumns) \ Range(actual_cols)
             extra_cols   == Range(actual_cols) \ Range(RequiredColumns)
         IN  [valid            |-> missing_cols = {} /\ extra_cols = {},
              required_columns |-> RequiredColumns,
              actual_columns   |-> actual_cols,
              missing_columns  |-> missing_cols,
              extra_columns    |-> extra_cols,
              row_count        |-> Len(fs[csv_path].rows)]

\* ImageRecord.validate_csv_schema(csv_path) on the file system fs
validate_csv_schema(fs, csv_path) ==
    IF csv_path \notin DOMAIN fs THEN ValidationError          \* open() raises
    ELSE IF fs[csv_path].kind # "csv" THEN ValidationError     \* not decodable
    ELSE IF ReaderRaises(fs[csv_path]) THEN ValidationError    \* _csv.Error
    ELSE LET actual_cols  == ActualColumns(fs[csv_path])
             missing_cols == Range(RequiredColumns) \ Range(actual_cols)
             extra_cols   == Range(actual_cols) \ Range(RequiredColumns)
         IN  [valid            |-> missing_cols = {},
              required_columns |-> RequiredColumns,
              actual_columns   |-> actual_cols,
              missing_columns  |-> missing_cols,
              extra_columns    |-> extra_cols,
              row_count        |-> Len(fs[csv_path].rows)]

\* A ZIP file is [kind |-> "zip", entries]: entries maps each entry name (a
\* relative path) to the content stored under it.  zipf.namelist():
ZipNames(zip) == DOMAIN zip.entries

\* ReportGenerator._validate_csv_paths_in_zip(csv_path, zip_path)
validate_csv_paths_in_zip(fs, csv_path, zip_path) ==
    IF \/ zip_path \notin DOMAIN fs
       \/ csv_path \notin DOMAIN fs
    THEN [valid |-> FALSE, error |-> "error"]
    ELSE IF \/ fs[zip_path].kind # "zip"
            \/ fs[csv_path].kind # "csv"
            \/ ReaderRaises(fs[csv_path])
    THEN [valid |-> FALSE, error |-> "error"]
    ELSE LET zip_files == ZipNames(fs[zip_path])
             rows      == fs[csv_path].rows
             withPath  == SelectSeq(rows, LAMBDA r :
                              /\ "relative_path" \in DOMAIN r
                              /\ r["relative_path"] # <<>>)
             csv_paths == [i \in DOMAIN withPath |-> withPath[i]["relative_path"]]
             missing_paths == SelectSeq(csv_paths, LAMBDA q : q \notin zip_files)
             valid_paths   == SelectSeq(csv_paths, LAMBDA q : q \in zip_files)
         IN  [valid             |-> Len(missing_paths) = 0,
              total_csv_paths   |-> Len(csv_paths),
              valid_paths       |-> Len(valid_paths),
              missing_paths     |-> missing_paths,
              validation_passed |-> Len(missing_paths) = 0]

(***************************************************************************)
(* Gallery data (ReportGenerator).                                         *)
(*                                                                         *)
(* Gallery data is a JSON object: here the tuple of its (key, images)      *)
(* entries in the order of the object, images being a tuple of image       *)
(* dicts.  A text that int() parses is one of IntTexts.                    *)
(***************************************************************************)
GenTypes == {"txt2img", "img2img", "extras"}

Entry(k, imgs) == [key |-> k, images |-> imgs]

Keys(data) == {data[i].key : i \in DOMAIN data}

\* what is known of a file name: whether it ends in an image extension and
\* which of the classification keywords occur in it (lower-cased)
NameInfo(name) ==
    CASE name = "x.png"         -> [image |-> TRUE,  words |-> {}]
      [] name = "y_img2img.png" -> [image |-> TRUE,  words |-> {"img2img"}]
      [] name = "z_upscaled.PNG" -> [image |-> TRUE, words |-> {"upscaled"}]
      [] OTHER                  -> [image |-> FALSE, words |-> {}]

\* the timestamp texts the model tells apart
Now(clock) == "T" \o ToString(clock)

\* one record of _scan_served_images for a file of the served directory
ScannedRecord(filename) ==
    [ id             |-> "scanned_" \o filename,
      filename       |-> <<filename>>,
      url            |-> <<"http:", "", "localhost:5001", "api", "images", filename>>,
      prompt         |-> "Generated image",
      negativePrompt |-> "",
      timestamp      |-> "mtime",
      file_size      |-> "size",
      settings       |-> [model_name |-> "unknown", sampler_name |-> "unknown",
                          steps |-> "20", cfg_scale |-> "7.0", width |-> "512",
                          height |-> "512", seed |-> "-1"] ]

\* the generation type the scan puts a file name under
Classify(filename) ==
    IF NameInfo(filename).words \cap {"img2img", "controlnet"} # {} THEN "img2img"
    ELSE IF NameInfo(filename).words \cap {"upscaled", "extras", "enhanced"} # {} THEN "extras"
    ELSE "txt2img"

\* ReportGenerator._scan_served_images, os.listdir returning `listing`
scan_served_images(ds, fs, listing) ==
    IF ~Exists(ds, fs, served_images_dir)
    THEN << Entry("txt2img", <<>>), Entry("img2img", <<>>), Entry("extras", <<>>) >>
    ELSE LET kept == SelectSeq(listing, LAMBDA n :
                         /\ NameInfo(n).image
                         /\ Append(served_images_dir, n) \in DOMAIN fs)
             of(t) == LET mine == SelectSeq(kept, LAMBDA n : Classify(n) = t)
                      IN  [i \in DOMAIN mine |-> ScannedRecord(mine[i])]
         IN  << Entry("txt2img", of("txt2img")), Entry("img2img", of("img2img")),
                Entry("extras", of("extras")) >>

\* the names os.listdir(served_images_dir) may return, in any order
Listings(ds, fs) ==
    Perms({q[Len(q)] : q \in {r \in (DOMAIN fs) \cup ds :
                                   Len(r) = Len(served_images_dir) + 1
                                   /\ IsPrefix(served_images_dir, r)}})

\* a scan that lists the directory without looking whether it exists
scan_raises_unguarded(ds, fs) == served_images_dir \notin ds

\* os.listdir(self.served_images_dir) raises: the path exists (line 108) and
\* is not a directory
scan_raises(ds, fs) == served_images_dir \in DOMAIN fs

\* the snapshot file is there, json.load reads it, and it is an object with
\* one of the three keys (lines 90-94)
WellFormed(snap) == snap.state = "object" /\ Keys(snap.data) \cap GenTypes # {}

\* an adapter that adds the scanned images to the lists of the snapshot
fetch_gallery_data_merging(snap, ds, fs, listing) ==
    IF snap.state = "object" /\ Keys(snap.data) \cap GenTypes # {}
    THEN snap.data \o scan_served_images(ds, fs, listing)
    ELSE scan_served_images(ds, fs, listing)

\* ReportGenerator.fetch_gallery_data; snap is the state of
\* temp_gallery_data.json
fetch_gallery_data(snap, ds, fs, listing) ==
    IF snap.state = "object" /\ Keys(snap.data) \cap GenTypes # {}
    THEN snap.data
    ELSE scan_served_images(ds, fs, listing)

IntTexts == {"20", "30", "512", "-1"}

IntOf(t) == CASE t = "20" -> 20 [] t = "30" -> 30 [] t = "512" -> 512 [] t = "-1" -> -1

\* the ImageRecord create_csv_records builds for one image
MakeRecord(generation_type, batch_index, image, clock) ==
    LET settings == Get(image, "settings", << >>)
        filename ==
            IF "filename" \in DOMAIN image THEN image["filename"]
            ELSE IF "url" \in DOMAIN image THEN << image["url"][Len(image["url"])] >>
            ELSE << "image_" \o ToString(batch_index) \o ".png" >>
    IN  [ id              |-> Get(image, "id", generation_type \o "_" \o ToString(batch_index)),
          filename        |-> filename,
          relative_path   |-> <<"grids", generation_type>> \o filename,
          prompt          |-> Get(image, "prompt", ""),
          negative_prompt |-> Get(image, "negativePrompt", ""),
          model_name      |-> Get(settings, "model_name", "unknown"),
          sampler_name    |-> Get(settings, "sampler_name", "unknown"),
          steps           |-> IntOf(Get(settings, "steps", "20")),
          cfg_scale       |-> Get(settings, "cfg_scale", "7.0"),
          width           |-> IntOf(Get(settings, "width", "512")),
          height          |-> IntOf(Get(settings, "height", "512")),
          seed            |-> IntOf(Get(settings, "seed", "-1")),
          timestamp       |-> Get(image, "timestamp", Now(clock)),
          generation_type |-> generation_type,
          batch_index     |-> batch_index,
          denoising_strength |-> IF "denoising_strength" \in DOMAIN settings
                                 THEN << settings["denoising_strength"] >> ELSE None,
          input_image_path   |-> IF "input_image" \in DOMAIN settings
                                 THEN << <<"grids", "input_images">> \o filename >> ELSE None,
          lora_models        |-> IF "lora" \in DOMAIN settings
                                 THEN << settings["lora"] >> ELSE None,
          controlnet_info    |-> IF "controlnet" \in DOMAIN settings
                                 THEN << settings["controlnet"] >> ELSE None,
          file_size_bytes    |-> IF "file_size" \in DOMAIN image
                                 THEN << image["file_size"] >> ELSE None ]

\* int(settings.get(...)) raises ValueError on a text that is no number
ConversionRaises(data) ==
    \E i \in DOMAIN data : \E j \in DOMAIN data[i].images :
        LET settings == Get(data[i].images[j], "settings", << >>)
        IN  \E k \in {"steps", "width", "height", "seed"} \cap DOMAIN settings :
                settings[k] \notin IntTexts

\* a conversion that numbers the images through all lists
create_csv_records_running_index(data, clock) ==
    LET recs == Concat([i \in DOMAIN data |->
                    [j \in DOMAIN data[i].images |->
                        MakeRecord(data[i].key, j - 1, data[i].images[j], clock)]])
    IN  [k \in DOMAIN recs |-> [recs[k] EXCEPT !.batch_index = k - 1]]

\* ReportGenerator.create_csv_records, when it does not raise
create_csv_records(data, clock) ==
    Concat([i \in DOMAIN data |->
               [j \in DOMAIN data[i].images |->
                   MakeRecord(data[i].key, j - 1, data[i].images[j], clock)]])

(***************************************************************************)
(* ReportGenerator.copy_images_to_bundle and the ZIP step.                 *)
(***************************************************************************)
MissingEntry(record, reason) == [path |-> record.relative_path, reason |-> reason]

\* a copy step that skips an absent source file without recording it
CopyOne_silent(st, record, bundle_dir) ==
    LET src_path  == Join(served_images_dir, record.filename)
        dest_path == Join(bundle_dir, record.relative_path)
    IN  IF src_path \in DOMAIN st.files /\ CanMakedirs(st.files, Dirname(dest_path))
        THEN [st EXCEPT !.dirs   = Makedirs(@, Dirname(dest_path)),
                        !.files  = PutFile(@, dest_path, st.files[src_path]),
                        !.copied = Append(@, record.relative_path)]
        ELSE st

\* a copy step that notes the file as copied before shutil.copy2 is called
CopyOne_notes_first(st, record, bundle_dir) ==
    LET src_path  == Join(served_images_dir, record.filename)
        dest_path == Join(bundle_dir, record.relative_path)
        target    == IF dest_path \in st.dirs
                     THEN Append(dest_path, src_path[Len(src_path)])
                     ELSE dest_path
    IN  IF Exists(st.dirs, st.files, src_path)
        THEN IF /\ src_path \in DOMAIN st.files
                /\ CanMakedirs(st.files, Dirname(dest_path))
                /\ target \notin st.dirs
             THEN [st EXCEPT !.dirs   = Makedirs(@, Dirname(dest_path)),
                             !.files  = PutFile(@, target, st.files[src_path]),
                             !.copied = Append(@, record.relative_path)]
             ELSE [st EXCEPT !.copied  = Append(@, record.relative_path),
                             !.missing = Append(@, MissingEntry(record, "copy failed"))]
        ELSE [st EXCEPT !.missing = Append(@, MissingEntry(record, "Source file not found"))]

\* one turn of the loop `for record in records` (lines 330-342); st holds the
\* file system and the two lists
CopyOne(st, record, bundle_dir) ==
    LET src_path  == Join(served_images_dir, record.filename)
        dest_path == Join(bundle_dir, record.relative_path)
        target    == IF dest_path \in st.dirs
                     THEN Append(dest_path, src_path[Len(src_path)])
                     ELSE dest_path
    IN  IF Exists(st.dirs, st.files, src_path)
        THEN IF /\ src_path \in DOMAIN st.files
                /\ CanMakedirs(st.files, Dirname(dest_path))
                /\ target \notin st.dirs
             THEN [st EXCEPT !.dirs   = Makedirs(@, Dirname(dest_path)),
                             !.files  = PutFile(@, target, st.files[src_path]),
                             !.copied = Append(@, record.relative_path)]
             ELSE [st EXCEPT !.missing = Append(@, MissingEntry(record, "copy failed"))]
        ELSE [st EXCEPT !.missing = Append(@, MissingEntry(record, "Source file not found"))]

RECURSIVE CopyLoop(_, _, _)
CopyLoop(st, records, bundle_dir) ==
    IF records = <<>> THEN st
    ELSE CopyLoop(CopyOne(st, Head(records), bundle_dir), Tail(records), bundle_dir)

GenerationTypesOf(records) == {records[i].generation_type : i \in DOMAIN records}

\* the directories made before the loop (lines 319-325)
GridDirs(records, bundle_dir) ==
    {Join(bundle_dir, <<"grids">>)}
        \cup {Join(bundle_dir, <<"grids", t>>) : t \in GenerationTypesOf(records)}

\* os.makedirs of lines 320 and 325 raises
GridDirsRaise(fs, records, bundle_dir) ==
    \E d \in GridDirs(records, bundle_dir) : ~CanMakedirs(fs, d)

\* ReportGenerator.copy_images_to_bundle, when it does not raise: the file
\* system after it and the lists it returns
copy_images_to_bundle(ds, fs, records, bundle_dir) ==
    LET made == UNION {Makedirs(ds, d) : d \in GridDirs(records, bundle_dir)}
    IN  CopyLoop([dirs |-> made, files |-> fs, copied |-> <<>>, missing |-> <<>>],
                 records, bundle_dir)

\* an archive whose names are relative to the parent of the staging
\* directory, so that each begins with the timestamped directory name
ZipOf_under_parent(fs, staging) ==
    [kind    |-> "zip",
     entries |-> [n \in {Relpath(q, Dirname(staging)) : q \in Walk(fs, staging)}
                     |-> fs[Dirname(staging) \o n]]]

\* the archive written from os.walk(staging): one entry per regular file,
\* named by its path relative to the staging directory
ZipOf(fs, staging) ==
    [kind    |-> "zip",
     entries |-> [n \in {Relpath(q, staging) : q \in Walk(fs, staging)}
                     |-> fs[staging \o n]]]

\* the archive left by a zip step that raised at its first entry: ZipFile
\* created (or truncated) the file when it opened it, and closing it on the
\* exception wrote an archive without entries
EmptyZip == [kind |-> "zip", entries |-> << >>]

(***************************************************************************)
(* Run registry and ReportBundleGenerator (report_bundle.py).              *)
(*                                                                         *)
(* A RunConfig keeps the fields that decide the bundle; its timestamp is a *)
(* number ordered as the ISO texts are.  RunRegistry.runs is the tuple of  *)
(* the stored configs in insertion order, one per run_id.                  *)
(***************************************************************************)
RunIds(reg) == {reg[i].run_id : i \in DOMAIN reg}

\* RunRegistry.get_run: the config, or None
get_run(reg, run_id) ==
    IF run_id \in RunIds(reg)
    THEN reg[CHOOSE i \in DOMAIN reg : reg[i].run_id = run_id]
    ELSE None

\* insertion into a tuple sorted by descending timestamp, after its equals
RECURSIVE InsertDesc(_, _)
InsertDesc(sorted, run) ==
    IF sorted = <<>> THEN <<run>>
    ELSE IF Head(sorted).timestamp >= run.timestamp
         THEN <<Head(sorted)>> \o InsertDesc(Tail(sorted), run)
         ELSE <<run>> \o sorted

RECURSIVE SortDesc(_, _)
SortDesc(sorted, rest) ==
    IF rest = <<>> THEN sorted
    ELSE SortDesc(InsertDesc(sorted, Head(rest)), Tail(rest))

\* a listing in insertion order
get_all_runs_unsorted(reg) == reg

\* RunRegistry.get_all_runs: sorted(..., key=timestamp, reverse=True), which
\* is stable and keeps equal timestamps in insertion order
get_all_runs(reg) == SortDesc(<<>>, reg)

\* a selection that keeps the order of the registry
SelectRuns_registry_order(reg, run_ids) ==
    IF run_ids # <<>>
    THEN SelectSeq(reg, LAMBDA r : r.run_id \in Range(run_ids))
    ELSE get_all_runs(reg)

\* lines 213-216: the runs a call bundles
SelectRuns(reg, run_ids) ==
    IF run_ids # <<>>
    THEN LET found == SelectSeq(run_ids, LAMBDA id : id \in RunIds(reg))
         IN  [i \in DOMAIN found |-> get_run(reg, found[i])]
    ELSE get_all_runs(reg)

\* RunRegistry.storage_file
storage_file == Append(cwd, "run_registry.json")

\* a registry that keeps every config it is given
add_run_appends(runs, config) == Append(runs, config)

\* self.runs[config.run_id] = config: a dict keeps the position of a key it
\* already has and puts a new key last
add_run(runs, config) ==
    IF config.run_id \in RunIds(runs)
    THEN [i \in DOMAIN runs |-> IF runs[i].run_id = config.run_id THEN config ELSE runs[i]]
    ELSE Append(runs, config)

\* a deletion that leaves the run where it is
delete_run_keeps(runs, run_id) == runs

\* del self.runs[run_id]
delete_run(runs, run_id) == SelectSeq(runs, LAMBDA r : r.run_id # run_id)

\* asdict(run_config), as json.dump writes it
asdict(run) ==
    [run_id |-> run.run_id, timestamp |-> run.timestamp, model |-> run.model,
     prompt |-> run.prompt, generation_type |-> run.generation_type,
     generated_images |-> run.generated_images]

\* RunConfig(**run_data)
RunConfigOf(run_data) ==
    [run_id |-> run_data.run_id, timestamp |-> run_data.timestamp,
     model |-> run_data.model, prompt |-> run_data.prompt,
     generation_type |-> run_data.generation_type,
     generated_images |-> run_data.generated_images]

\* a save that writes the newest entry only
save_runs_newest_only(runs) ==
    [kind   |-> "json",
     object |-> [i \in DOMAIN SubSeq(runs, Len(runs), Len(runs)) |->
                    [key |-> runs[Len(runs)].run_id, value |-> asdict(runs[Len(runs)])]]]

\* what save_runs writes: a JSON object with one member per run, keyed by
\* run_id, in the order of self.runs
save_runs(runs) ==
    [kind   |-> "json",
     object |-> [i \in DOMAIN runs |-> [key |-> runs[i].run_id, value |-> asdict(runs[i])]]]

\* the storage file after a write that failed part-way
TruncatedJson == [kind |-> "truncated"]

\* RunRegistry.load_runs into an empty self.runs: nothing is loaded when the
\* file is absent or json.load raises
load_runs(fs) ==
    IF storage_file \notin DOMAIN fs THEN << >>
    ELSE IF fs[storage_file].kind # "json" THEN << >>
    ELSE [i \in DOMAIN fs[storage_file].object |->
              RunConfigOf(fs[storage_file].object[i].value)]

RunCsvColumns ==
    << "run_id", "timestamp", "model", "vae", "prompt", "negative_prompt",
       "seed", "sampler", "steps", "cfg_scale", "width", "height",
       "batch_size", "batch_count", "generation_type", "image_paths",
       "loras", "controlnets", "workflow_hash" >>

\* the row generate_csv writes for a run; image_paths, the file names joined
\* by ";", is kept as the tuple of the names
RunCsvRow(run) ==
    [c \in Range(RunCsvColumns) |->
        CASE c = "run_id"          -> run.run_id
          [] c = "timestamp"       -> ToString(run.timestamp)
          [] c = "model"           -> run.model
          [] c = "prompt"          -> run.prompt
          [] c = "generation_type" -> run.generation_type
          [] c = "image_paths"     -> run.generated_images
          [] c \in {"loras", "controlnets"} -> "[]"
          [] OTHER                 -> ""]

\* ReportBundleGenerator.generate_csv: the content of temp_results.csv
generate_csv(runs) ==
    [kind |-> "csv", header |-> RunCsvColumns,
     rows |-> [i \in DOMAIN runs |-> RunCsvRow(runs[i])]]

\* ReportBundleGenerator.validate_csv_schema: it reads the header only
bundle_validate_csv_schema(fs, csv_path) ==
    IF csv_path \notin DOMAIN fs THEN FALSE
    ELSE IF fs[csv_path].kind # "csv" THEN FALSE
    ELSE IF fs[csv_path].header = None THEN FALSE     \* `in None` raises TypeError
    ELSE Range(RunCsvColumns) \subseteq Range(fs[csv_path].header)

\* the content of temp_config.json
ConfigOf(runs) ==
    [kind |-> "config",
     total_runs |-> Len(runs),
     generation_types |-> {runs[i].generation_type : i \in DOMAIN runs},
     models_used |-> {runs[i].model : i \in DOMAIN runs},
     runs |-> runs]

\* the content of temp_README.md
ReadmeOf(runs, copied_images) ==
    [kind |-> "readme", total_runs |-> Len(runs), images_included |-> Len(copied_images)]

\* shutil.copy2(src, dst) succeeds iff src is a file and dst's parent a directory
CanCopy(ds, fs, src, dst) == src \in DOMAIN fs /\ CanWrite(ds, fs, dst)

\* the file names of the runs, in the order the copy loop visits them
ImageFilenames(runs) ==
    SelectSeq(Concat([i \in DOMAIN runs |-> runs[i].generated_images]),
              LAMBDA n : n # <<>>)

\* one turn of the inner loop of ReportBundleGenerator.copy_images_to_bundle
\* (lines 120-136); st.raised is set when os.makedirs (line 127) raises
BundleCopyOne(st, image_filename, bundle_dir) ==
    LET src_path  == Join(output_dir, image_filename)
        dest_path == Join(bundle_dir, <<"images">> \o image_filename)
    IN  IF st.raised \/ ~Exists(st.dirs, st.files, src_path) THEN st
        ELSE IF ~CanMakedirs(st.files, Dirname(dest_path)) THEN [st EXCEPT !.raised = TRUE]
        ELSE IF src_path \in DOMAIN st.files /\ dest_path \notin st.dirs
             THEN [st EXCEPT !.dirs   = Makedirs(@, Dirname(dest_path)),
                             !.files  = PutFile(@, dest_path, st.files[src_path]),
                             !.copied = Append(@, image_filename)]
             ELSE [st EXCEPT !.dirs = Makedirs(@, Dirname(dest_path))]

RECURSIVE BundleCopyLoop(_, _, _)
BundleCopyLoop(st, names, bundle_dir) ==
    IF names = <<>> THEN st
    ELSE BundleCopyLoop(BundleCopyOne(st, Head(names), bundle_dir), Tail(names), bundle_dir)

\* ReportBundleGenerator.copy_images_to_bundle
bundle_copy_images(ds, fs, runs, bundle_dir) ==
    BundleCopyLoop([dirs |-> ds, files |-> fs, copied |-> <<>>, raised |-> FALSE],
                   ImageFilenames(runs), bundle_dir)

temp_results_csv == Append(cwd, "temp_results.csv")
temp_config_json == Append(cwd, "temp_config.json")
temp_README_md   == Append(cwd, "temp_README.md")
report_zip       == Append(cwd, "report.zip")

(***************************************************************************)
(* State.                                                                  *)
(***************************************************************************)
VARIABLES
    mode,       \* which service the behaviour is about: "gallery", "registry" or "validate"
    clock,      \* datetime.now(), in whole seconds
    dirs,       \* the directories of the file system
    files,      \* the regular files of the file system and their content
    snapshot,   \* temp_gallery_data.json: absent, malformed or a JSON value
    registry,   \* RunRegistry.runs of the generator's registry, in insertion order
    registries, \* the RunRegistry instances opened on one storage file
    call        \* per create_report_bundle call: its position and its locals

vars == << mode, clock, dirs, files, snapshot, registry, registries, call >>

\* the locals of a call that has not started
IdleCall ==
    [ pc |-> "idle", output_filename |-> None, output_path |-> None,
      temp_dir |-> None, gallery_data |-> None, records |-> None,
      csv_validation |-> None, copy_info |-> None, run_ids |-> None,
      runs |-> None, copied_images |-> None,
      result |-> None,      \* what the call returned; [status |-> "raised"] if it raised
      input |-> None,       \* the gallery data or runs the call worked on
      produced |-> None,    \* the archive the call wrote, if it wrote one
      output_before |-> None,   \* what the output path held when the call began
      raised |-> "" ]       \* why a step of the call raised ("" if none did)

\* the locals die when the call returns: what is kept is what it returned
\* and, for stating the properties, what it read and wrote
Returned(c, result) ==
    [IdleCall EXCEPT !.pc = "done", !.result = result,
                     !.temp_dir = c.temp_dir, !.output_path = c.output_path,
                     !.input = c.input, !.produced = c.produced,
                     !.raised = c.raised, !.run_ids = c.run_ids,
                     !.output_before = c.output_before]

(***************************************************************************)
(* Initial states.                                                         *)
(***************************************************************************)
\* image dicts a snapshot may hold
ImagePool ==
    { [ id |-> "a1", filename |-> <<"x.png">>, prompt |-> "p",
        settings |-> [steps |-> "30", denoising_strength |-> "0.75", input_image |-> "in.png"] ],
      [ url |-> <<"http:", "", "localhost:5001", "api", "images", "y_img2img.png">>,
        prompt |-> "<prompt of 131073 characters>" ],
      [ id |-> "a1", filename |-> <<"y_img2img.png">>, file_size |-> "100" ],
      [ filename |-> <<"x.png">>, settings |-> [steps |-> "abc"] ] }

SnapshotKeys == << "txt2img", "custom" >>

\* the JSON objects a snapshot may hold: any sub-sequence of SnapshotKeys,
\* each with a list of images, MaxImages images in all at most
SnapshotObjects ==
    { SelectSeq([i \in DOMAIN SnapshotKeys |-> Entry(SnapshotKeys[i], lists[i])],
                LAMBDA e : e.key \in ks)
        : ks \in SUBSET Range(SnapshotKeys),
          lists \in {l \in [DOMAIN SnapshotKeys -> SeqsUpTo(ImagePool, MaxImages)] :
                         SumLen(l) <= MaxImages} }

Snapshots ==
    { [state |-> "absent"], [state |-> "malformed"] }
        \cup { [state |-> "object", data |-> d] : d \in SnapshotObjects }

BaseDirs == {reports_dir, served_images_dir, cwd} \cup (Prefixes(output_dir) \ {<<>>})

\* files the served-images directory may hold
ServedChoices == SUBSET {"x.png", "y_img2img.png"}

ServedFiles(names) ==
    [q \in {Append(served_images_dir, n) : n \in names \cup {"notes.txt"}} |-> Blob]

InitGallery ==
    /\ mode = "gallery"
    /\ snapshot \in Snapshots
    /\ \E names \in ServedChoices : files = ServedFiles(names)
    /\ registry = <<>>

\* runs the registry may hold
RunPool ==
    { [ run_id |-> "r1", timestamp |-> 1, model |-> "m1", prompt |-> "p",
        generation_type |-> "txt2img", generated_images |-> << <<"a.png">> >> ],
      [ run_id |-> "r2", timestamp |-> 2, model |-> "m2", prompt |-> "q",
        generation_type |-> "img2img", generated_images |-> << <<"a.png">>, <<"b.png">> >> ],
      [ run_id |-> "r3", timestamp |-> 2, model |-> "m1", prompt |-> "",
        generation_type |-> "txt2img", generated_images |-> << >> ] }

\* registries: up to MaxRuns runs with distinct ids, in any insertion order
Registries ==
    {r \in SeqsUpTo(RunPool, MaxRuns) : Cardinality(RunIds(r)) = Len(r)}

\* files the output directory may hold
OutputChoices == SUBSET {"a.png", "b.png"}

OutputFiles(names) == [q \in {Append(output_dir, n) : n \in names} |-> Blob]

InitRegistry ==
    /\ mode = "registry"
    /\ snapshot = [state |-> "absent"]
    /\ registry \in Registries
    /\ \E names \in OutputChoices : files = OutputFiles(names)

\* externally produced CSV files handed to the stand-alone validator: the
\* canonical header with some required columns dropped and some foreign
\* columns added, an empty file, or no file at all
DroppedColumns == {"id", "negative_prompt", "model_name"}
ForeignColumns == {"denoising_strength", "comment"}

ExternalHeaders ==
    { SelectSeq(RequiredColumns, LAMBDA c : c \notin drop) \o extra
        : drop \in SUBSET DroppedColumns,
          extra \in UNION {Perms(e) : e \in SUBSET ForeignColumns} }

ExternalRow(header, text) ==
    [c \in Range(header) |-> IF c = "relative_path" THEN <<"grids", "txt2img", "x.png">>
                             ELSE IF c = "prompt" THEN text ELSE "v"]

ExternalCsvs ==
    { [kind |-> "csv", header |-> None, rows |-> <<>>] }
        \cup { [kind |-> "csv", header |-> h, rows |-> [i \in 1..n |-> ExternalRow(h, t)]]
                 : h \in ExternalHeaders, n \in 0..MaxRows,
                   t \in {"p"} \cup OversizedTexts }

external_csv == Append(cwd, "external.csv")

InitValidate ==
    /\ mode = "validate"
    /\ snapshot = [state |-> "absent"]
    /\ registry = <<>>
    /\ \/ files = << >>
       \/ \E csv \in ExternalCsvs : files = [q \in {external_csv} |-> csv]

\* the run ids given to get_run and delete_run
RegistryIds == {"r1", "r2", "zz"}

\* the configs given to add_run: the runs r1 and r2, and a second config
\* with the run_id of r1
Resubmitted ==
    [ run_id |-> "r1", timestamp |-> 3, model |-> "m3", prompt |-> "again",
      generation_type |-> "img2img", generated_images |-> << <<"b.png">> >> ]

AddChoices == {r \in RunPool : r.run_id \in {"r1", "r2"}} \cup {Resubmitted}

\* a RunRegistry that is not constructed yet
ClosedRegistry ==
    [ open     |-> FALSE,
      runs     |-> << >>,     \* self.runs, in insertion order
      pending  |-> FALSE,     \* self.runs is changed, save_runs has not run yet
      returned |-> None,      \* what the last delete_run returned, of which run_id
      saved    |-> "none",    \* its last save_runs: "ok", "failed", "stale" (ok, but
                              \* another instance has written since), "none"
      expect   |-> [id \in RegistryIds |-> << >>] ]   \* per id, the config of the
                              \* last add_run not followed by a delete_run

\* the storage file when the service starts: absent, written by an earlier
\* service, or cut short by a crash
InitRuns ==
    /\ mode = "runs"
    /\ snapshot = [state |-> "absent"]
    /\ registry = <<>>
    /\ \/ files = << >>
       \/ \E r \in {x \in RunPool : x.run_id = "r2"} :
             files = [q \in {storage_file} |-> save_runs(<<r>>)]
       \/ files = [q \in {storage_file} |-> TruncatedJson]

Init ==
    /\ clock = 0
    /\ dirs = BaseDirs
    /\ call = [p \in Procs |-> IdleCall]
    /\ registries = [i \in Instances |-> ClosedRegistry]
    /\ \/ InitGallery
       \/ InitRegistry
       \/ InitValidate

RunsInit ==
    /\ clock = 0
    /\ dirs = BaseDirs
    /\ call = [p \in Procs |-> IdleCall]
    /\ registries = [i \in Instances |-> ClosedRegistry]
    /\ InitRuns

(***************************************************************************)
(* ReportGenerator.create_report_bundle, statement by statement.           *)
(***************************************************************************)
Set(p, c) == call' = [call EXCEPT ![p] = c]

\* calls do not overlap, and are numbered in the order they are made
MayBegin(p) ==
    /\ call[p].pc = "idle"
    /\ \A q \in Procs : q < p => call[q].pc = "done"

\* the output_filename argument: none, a plain name, or a name inside the
\* staging directory of a call made in second 0
OutputFilenames ==
    { None, <<"report.zip">>, << "temp_bundle_" \o Now(0), "inside.zip" >> }

ErrorResult == [status |-> "error", error |-> "error", report_path |-> None]

\* an except branch that lets the exception leave the call (the finally
\* block still runs)
G_Except_propagates(c, why) ==
    [c EXCEPT !.pc = "finally", !.result = [status |-> "raised", error |-> "error"],
              !.raised = why]

\* the exception handler of lines 420-425
G_Except(c, why) == [c EXCEPT !.pc = "finally", !.result = ErrorResult, !.raised = why]

\* lines 352-360: the output path, the staging directory
G_Enter(p) ==
    /\ mode = "gallery" /\ call[p].pc = "idle"
    /\ \E name \in OutputFilenames :
         LET output_filename == IF name = None
                                THEN << "dreamlayer_report_" \o Now(clock) \o ".zip" >>
                                ELSE name
             temp_dir == Append(reports_dir, "temp_bundle_" \o Now(clock))
         IN  /\ CanMakedirs(files, temp_dir)
             /\ dirs' = Makedirs(dirs, temp_dir)
             /\ Set(p, [call[p] EXCEPT !.pc = "fetch",
                                       !.output_filename = output_filename,
                                       !.output_path = Join(reports_dir, output_filename),
                                       !.output_before =
                                           Held(files, Join(reports_dir, output_filename)),
                                       !.temp_dir = temp_dir])
    /\ UNCHANGED << mode, clock, files, snapshot, registry, registries >>

\* a call made when no other call is running
G_Begin(p) == MayBegin(p) /\ G_Enter(p)

\* line 364
G_Fetch(p) ==
    /\ mode = "gallery" /\ call[p].pc = "fetch"
    /\ \E listing \in Listings(dirs, files) :
         LET data == fetch_gallery_data(snapshot, dirs, files, listing)
         IN  Set(p, [call[p] EXCEPT !.pc = "records", !.gallery_data = data, !.input = data])
    /\ UNCHANGED << mode, clock, dirs, files, snapshot, registry, registries >>

\* line 367
G_Records(p) ==
    /\ mode = "gallery" /\ call[p].pc = "records"
    /\ IF ConversionRaises(call[p].gallery_data)
       THEN Set(p, G_Except(call[p], "conversion"))
       ELSE Set(p, [call[p] EXCEPT !.pc = "write_csv",
                        !.records = create_csv_records(call[p].gallery_data, clock)])
    /\ UNCHANGED << mode, clock, dirs, files, snapshot, registry, registries >>

\* lines 370-371
G_WriteCsv(p) ==
    /\ mode = "gallery" /\ call[p].pc = "write_csv"
    /\ LET csv_path == Append(call[p].temp_dir, "results.csv")
       IN  IF CanWrite(dirs, files, csv_path)
           THEN /\ files' = PutFile(files, csv_path, write_csv(call[p].records))
                /\ Set(p, [call[p] EXCEPT !.pc = "validate_csv"])
           ELSE /\ Set(p, G_Except(call[p], "path"))
                /\ UNCHANGED files
    /\ UNCHANGED << mode, clock, dirs, snapshot, registry, registries >>

\* line 374
G_ValidateCsv(p) ==
    /\ mode = "gallery" /\ call[p].pc = "validate_csv"
    /\ Set(p, [call[p] EXCEPT !.pc = "config",
                  !.csv_validation =
                      validate_csv_schema(files, Append(call[p].temp_dir, "results.csv"))])
    /\ UNCHANGED << mode, clock, dirs, files, snapshot, registry, registries >>

\* lines 377-380
G_Config(p) ==
    /\ mode = "gallery" /\ call[p].pc = "config"
    /\ LET config_path == Append(call[p].temp_dir, "config.json")
       IN  IF CanWrite(dirs, files, config_path)
           THEN /\ files' = PutFile(files, config_path, Blob)
                /\ Set(p, [call[p] EXCEPT !.pc = "copy"])
           ELSE /\ Set(p, G_Except(call[p], "path"))
                /\ UNCHANGED files
    /\ UNCHANGED << mode, clock, dirs, snapshot, registry, registries >>

\* line 383
G_CopyImages(p) ==
    /\ mode = "gallery" /\ call[p].pc = "copy"
    /\ IF GridDirsRaise(files, call[p].records, call[p].temp_dir)
       THEN /\ Set(p, G_Except(call[p], "path"))
            /\ UNCHANGED << dirs, files >>
       ELSE LET st == copy_images_to_bundle(dirs, files, call[p].records, call[p].temp_dir)
            IN  /\ dirs' = st.dirs
                /\ files' = st.files
                /\ Set(p, [call[p] EXCEPT !.pc = "readme",
                              !.copy_info =
                                  [copied_files     |-> st.copied,
                                   missing_files    |-> st.missing,
                                   generation_types |-> GenerationTypesOf(call[p].records)]])
    /\ UNCHANGED << mode, clock, snapshot, registry, registries >>

\* lines 386-392
G_Readme(p) ==
    /\ mode = "gallery" /\ call[p].pc = "readme"
    /\ LET readme_path == Append(call[p].temp_dir, "README.md")
       IN  IF CanWrite(dirs, files, readme_path)
           THEN /\ files' = PutFile(files, readme_path, Blob)
                /\ Set(p, [call[p] EXCEPT !.pc = "zip"])
           ELSE /\ Set(p, G_Except(call[p], "path"))
                /\ UNCHANGED files
    /\ UNCHANGED << mode, clock, dirs, snapshot, registry, registries >>

\* lines 395-400.  ZipFile(output_path, 'w') creates the file before os.walk
\* lists the staging directory: an archive that lies inside the staging
\* directory is listed too and becomes an entry of itself
G_Zip(p) ==
    /\ mode = "gallery" /\ call[p].pc = "zip"
    /\ IF CanWrite(dirs, files, call[p].output_path)
       THEN LET opened == PutFile(files, call[p].output_path, EmptyZip)
                zip == ZipOf(opened, call[p].temp_dir)
            IN  /\ files' = PutFile(files, call[p].output_path, zip)
                /\ Set(p, [call[p] EXCEPT !.pc = "validate_paths", !.produced = zip])
       ELSE /\ Set(p, G_Except(call[p], "path"))
            /\ UNCHANGED files
    /\ UNCHANGED << mode, clock, dirs, snapshot, registry, registries >>

\* lines 403-418
G_ValidatePaths(p) ==
    /\ mode = "gallery" /\ call[p].pc = "validate_paths"
    /\ LET c == call[p]
           path_validation ==
               validate_csv_paths_in_zip(files, Append(c.temp_dir, "results.csv"), c.output_path)
       IN  Set(p, [c EXCEPT !.pc = "finally",
                      !.result =
                          [status           |-> "success",
                           report_path      |-> c.output_path,
                           report_filename  |-> c.output_filename,
                           total_images     |-> Len(c.records),
                           csv_validation   |-> c.csv_validation,
                           path_validation  |-> path_validation,
                           copied_files     |-> Len(c.copy_info.copied_files),
                           missing_files    |-> c.copy_info.missing_files,
                           generation_types |-> c.copy_info.generation_types]])
    /\ UNCHANGED << mode, clock, dirs, files, snapshot, registry, registries >>

\* lines 426-429, then the return
G_Finally(p) ==
    /\ mode = "gallery" /\ call[p].pc = "finally"
    /\ IF Exists(dirs, files, call[p].temp_dir)
       THEN /\ dirs' = RmtreeDirs(dirs, call[p].temp_dir)
            /\ files' = RmtreeFiles(files, call[p].temp_dir)
       ELSE UNCHANGED << dirs, files >>
    /\ Set(p, Returned(call[p], call[p].result))
    /\ UNCHANGED << mode, clock, snapshot, registry, registries >>

\* an I/O error (disk full, permission denied) in one of the writing steps
\* of the try block, before the step has written anything
G_IoError(p) ==
    /\ mode = "gallery" /\ call[p].pc \in {"write_csv", "config", "copy", "readme"}
    /\ Set(p, G_Except(call[p], "io"))
    /\ UNCHANGED << mode, clock, dirs, files, snapshot, registry, registries >>

\* zipf.write raises while the archive is being written (an OSError, or the
\* ValueError of zipfile for a staged file whose modification time is before
\* 1980, which shutil.copy2 carries over from the source image): ZipFile has
\* created the file at the output path, and it stays there
G_ZipIoError(p) ==
    /\ mode = "gallery" /\ call[p].pc = "zip"
    /\ CanWrite(dirs, files, call[p].output_path)
    /\ files' = PutFile(files, call[p].output_path, EmptyZip)
    /\ Set(p, G_Except(call[p], "io"))
    /\ UNCHANGED << mode, clock, dirs, snapshot, registry, registries >>

(***************************************************************************)
(* ReportBundleGenerator.create_report_bundle, statement by statement.     *)
(* The call returns the path of the archive or raises.                     *)
(***************************************************************************)
RunIdChoices == { << >>, <<"r1">>, <<"r2", "r1">>, <<"zz", "r2">>, <<"zz">> }

RaisedResult == [status |-> "raised", error |-> "error"]

\* the exception handler of lines 274-278 is entered
R_Except(c, why) == [c EXCEPT !.pc = "r_except", !.raised = why]

\* the POST /api/report-bundle route around the call: an exception becomes
\* an error response
route_response(result) ==
    IF result.status = "raised"
    THEN [status |-> "error", message |-> result.error, code |-> 500]
    ELSE [status |-> "success", file_path |-> result.zip_path, code |-> 200]

\* a call that makes the staging directory before it looks at the runs
R_Begin_stages_first(p) ==
    /\ mode = "registry" /\ MayBegin(p)
    /\ \E run_ids \in RunIdChoices :
         LET runs == SelectRuns(registry, run_ids)
             bundle_dir == Append(cwd, "temp_report_bundle_" \o Now(clock))
         IN  /\ CanMakedirs(files, bundle_dir)
             /\ dirs' = Makedirs(dirs, bundle_dir)
             /\ IF runs = <<>>
                THEN Set(p, Returned([call[p] EXCEPT !.raised = "no runs",
                                                     !.run_ids = run_ids,
                                                     !.temp_dir = bundle_dir],
                                     RaisedResult))
                ELSE Set(p, [call[p] EXCEPT !.pc = "r_csv", !.run_ids = run_ids,
                                            !.runs = runs, !.input = runs,
                                            !.temp_dir = bundle_dir,
                                            !.output_path = report_zip,
                                            !.output_before = Held(files, report_zip)])
    /\ UNCHANGED << mode, clock, files, snapshot, registry, registries >>

\* lines 213-225: the runs, the staging directory
R_Enter(p) ==
    /\ mode = "registry" /\ call[p].pc = "idle"
    /\ \E run_ids \in RunIdChoices :
         LET runs == SelectRuns(registry, run_ids)
             bundle_dir == Append(cwd, "temp_report_bundle_" \o Now(clock))
         IN  IF runs = <<>>
             THEN /\ Set(p, Returned([call[p] EXCEPT !.raised = "no runs",
                                                     !.run_ids = run_ids], RaisedResult))
                  /\ UNCHANGED dirs
             ELSE /\ CanMakedirs(files, bundle_dir)
                  /\ dirs' = Makedirs(dirs, bundle_dir)
                  /\ Set(p, [call[p] EXCEPT !.pc = "r_csv", !.run_ids = run_ids,
                                            !.runs = runs, !.input = runs,
                                            !.temp_dir = bundle_dir,
                                            !.output_path = report_zip,
                                            !.output_before = Held(files, report_zip)])
    /\ UNCHANGED << mode, clock, files, snapshot, registry, registries >>

\* a call made when no other call is running
R_Begin(p) == MayBegin(p) /\ R_Enter(p)

\* line 230
R_GenerateCsv(p) ==
    /\ mode = "registry" /\ call[p].pc = "r_csv"
    /\ IF CanWrite(dirs, files, temp_results_csv)
       THEN /\ files' = PutFile(files, temp_results_csv, generate_csv(call[p].runs))
            /\ Set(p, [call[p] EXCEPT !.pc = "r_validate"])
       ELSE /\ Set(p, R_Except(call[p], "path"))
            /\ UNCHANGED files
    /\ UNCHANGED << mode, clock, dirs, snapshot, registry, registries >>

\* lines 233-237
R_ValidateCsv(p) ==
    /\ mode = "registry" /\ call[p].pc = "r_validate"
    /\ LET results_csv == Append(call[p].temp_dir, "results.csv")
       IN  IF /\ bundle_validate_csv_schema(files, temp_results_csv)
              /\ CanCopy(dirs, files, temp_results_csv, results_csv)
           THEN /\ files' = PutFile(files, results_csv, files[temp_results_csv])
                /\ Set(p, [call[p] EXCEPT !.pc = "r_config", !.csv_validation = TRUE])
           ELSE /\ Set(p, R_Except(call[p], "validation"))
                /\ UNCHANGED files
    /\ UNCHANGED << mode, clock, dirs, snapshot, registry, registries >>

\* lines 241-242
R_Config(p) ==
    /\ mode = "registry" /\ call[p].pc = "r_config"
    /\ LET config_json == Append(call[p].temp_dir, "config.json")
           written == PutFile(files, temp_config_json, ConfigOf(call[p].runs))
       IN  IF ~CanWrite(dirs, files, temp_config_json)
           THEN /\ Set(p, R_Except(call[p], "path"))
                /\ UNCHANGED files
           ELSE IF ~CanCopy(dirs, written, temp_config_json, config_json)
           THEN /\ Set(p, R_Except(call[p], "path"))
                /\ files' = written
           ELSE /\ files' = PutFile(written, config_json, written[temp_config_json])
                /\ Set(p, [call[p] EXCEPT !.pc = "r_images"])
    /\ UNCHANGED << mode, clock, dirs, snapshot, registry, registries >>

\* line 246
R_CopyImages(p) ==
    /\ mode = "registry" /\ call[p].pc = "r_images"
    /\ LET st == bundle_copy_images(dirs, files, call[p].runs, call[p].temp_dir)
       IN  /\ dirs' = st.dirs
           /\ files' = st.files
           /\ IF st.raised
              THEN Set(p, R_Except(call[p], "path"))
              ELSE Set(p, [call[p] EXCEPT !.pc = "r_readme", !.copied_images = st.copied])
    /\ UNCHANGED << mode, clock, snapshot, registry, registries >>

\* lines 250-251
R_Readme(p) ==
    /\ mode = "registry" /\ call[p].pc = "r_readme"
    /\ LET readme_md == Append(call[p].temp_dir, "README.md")
           written == PutFile(files, temp_README_md,
                              ReadmeOf(call[p].runs, call[p].copied_images))
       IN  IF ~CanWrite(dirs, files, temp_README_md)
           THEN /\ Set(p, R_Except(call[p], "path"))
                /\ UNCHANGED files
           ELSE IF ~CanCopy(dirs, written, temp_README_md, readme_md)
           THEN /\ Set(p, R_Except(call[p], "path"))
                /\ files' = written
           ELSE /\ files' = PutFile(written, readme_md, written[temp_README_md])
                /\ Set(p, [call[p] EXCEPT !.pc = "r_zip"])
    /\ UNCHANGED << mode, clock, dirs, snapshot, registry, registries >>

\* lines 255-261
R_Zip(p) ==
    /\ mode = "registry" /\ call[p].pc = "r_zip"
    /\ IF CanWrite(dirs, files, report_zip)
       THEN LET zip == ZipOf(files, call[p].temp_dir)
            IN  /\ files' = PutFile(files, report_zip, zip)
                /\ Set(p, [call[p] EXCEPT !.pc = "r_cleanup", !.produced = zip])
       ELSE /\ Set(p, R_Except(call[p], "path"))
            /\ UNCHANGED files
    /\ UNCHANGED << mode, clock, dirs, snapshot, registry, registries >>

\* lines 264-272: the temporary files, the staging directory, the return
R_Cleanup(p) ==
    /\ mode = "registry" /\ call[p].pc = "r_cleanup"
    /\ LET kept == DropFiles(files, {temp_results_csv, temp_config_json, temp_README_md})
       IN  IF call[p].temp_dir \in dirs
           THEN /\ dirs' = RmtreeDirs(dirs, call[p].temp_dir)
                /\ files' = RmtreeFiles(kept, call[p].temp_dir)
                /\ Set(p, Returned(call[p], [status |-> "returned", zip_path |-> report_zip]))
           ELSE /\ files' = kept                      \* shutil.rmtree raises
                /\ Set(p, R_Except(call[p], "path"))
                /\ UNCHANGED dirs
    /\ UNCHANGED << mode, clock, snapshot, registry, registries >>

\* an except branch that re-raises without removing the staging directory
R_Raise_keeps_staging(p) ==
    /\ mode = "registry" /\ call[p].pc = "r_except"
    /\ Set(p, Returned(call[p], RaisedResult))
    /\ UNCHANGED << mode, clock, dirs, files, snapshot, registry, registries >>

\* lines 274-278
R_Raise(p) ==
    /\ mode = "registry" /\ call[p].pc = "r_except"
    /\ IF Exists(dirs, files, call[p].temp_dir)
       THEN /\ dirs' = RmtreeDirs(dirs, call[p].temp_dir)
            /\ files' = RmtreeFiles(files, call[p].temp_dir)
       ELSE UNCHANGED << dirs, files >>
    /\ Set(p, Returned(call[p], RaisedResult))
    /\ UNCHANGED << mode, clock, snapshot, registry, registries >>

\* an I/O error (disk full, permission denied) in one of the steps of the
\* try block, before the step has written anything
R_IoError(p) ==
    /\ mode = "registry"
    /\ call[p].pc \in {"r_csv", "r_validate", "r_config", "r_images", "r_readme"}
    /\ Set(p, R_Except(call[p], "io"))
    /\ UNCHANGED << mode, clock, dirs, files, snapshot, registry, registries >>

\* zipf.write raises while report.zip is being written: the file ZipFile
\* created stays at the output path
R_ZipIoError(p) ==
    /\ mode = "registry" /\ call[p].pc = "r_zip"
    /\ CanWrite(dirs, files, report_zip)
    /\ files' = PutFile(files, report_zip, EmptyZip)
    /\ Set(p, R_Except(call[p], "io"))
    /\ UNCHANGED << mode, clock, dirs, snapshot, registry, registries >>

(***************************************************************************)
(* The stand-alone validator: ImageRecord.validate_csv_schema on a CSV     *)
(* file that was not written by this program.                              *)
(***************************************************************************)
V_Validate(p) ==
    /\ mode = "validate" /\ MayBegin(p)
    /\ Set(p, Returned(call[p], validate_csv_schema(files, external_csv)))
    /\ UNCHANGED << mode, clock, dirs, files, snapshot, registry, registries >>

(***************************************************************************)
(* RunRegistry instances on one storage file.  An add_run or delete_run    *)
(* changes self.runs and then rewrites the file: the two are one step each *)
(* so that the calls of instances in different processes interleave.       *)
(***************************************************************************)
SetRegistry(i, r) == registries' = [registries EXCEPT ![i] = r]

Others == << mode, clock, dirs, snapshot, registry, call >>

\* RunRegistry.__init__: load_runs
RR_Construct(i) ==
    /\ mode = "runs" /\ ~registries[i].open
    /\ LET runs == load_runs(files)
       IN  SetRegistry(i, [registries[i] EXCEPT
               !.open = TRUE, !.runs = runs,
               !.expect = [id \in RegistryIds |->
                              IF id \in RunIds(runs) THEN << get_run(runs, id) >> ELSE << >>]])
    /\ UNCHANGED << files, Others >>

\* add_run, line 65
RR_AddRun(i) ==
    /\ mode = "runs" /\ registries[i].open /\ ~registries[i].pending
    /\ \E config \in AddChoices :
         /\ config.run_id \in RunIds(registries[i].runs) \/ Len(registries[i].runs) < MaxRuns
         /\ SetRegistry(i, [registries[i] EXCEPT
                !.runs = add_run(@, config), !.pending = TRUE, !.returned = None,
                !.expect[config.run_id] = << config >>])
    /\ UNCHANGED << files, Others >>

\* delete_run, lines 78-79 and 81-82
RR_DeleteRun(i) ==
    /\ mode = "runs" /\ registries[i].open /\ ~registries[i].pending
    /\ \E run_id \in RegistryIds :
         IF run_id \in RunIds(registries[i].runs)
         THEN SetRegistry(i, [registries[i] EXCEPT
                  !.runs = delete_run(@, run_id), !.pending = TRUE,
                  !.returned = [run_id |-> run_id, value |-> TRUE],
                  !.expect[run_id] = << >>])
         ELSE SetRegistry(i, [registries[i] EXCEPT
                  !.returned = [run_id |-> run_id, value |-> FALSE],
                  !.expect[run_id] = << >>])
    /\ UNCHANGED << files, Others >>

\* a save that reads the file again and keeps the runs of other writers
RR_Save_merging(i) ==
    /\ mode = "runs" /\ registries[i].pending
    /\ LET mine == registries[i].runs
           kept == SelectSeq(load_runs(files), LAMBDA r : r.run_id \notin RunIds(mine))
       IN  files' = PutFile(files, storage_file, save_runs(kept \o mine))
    /\ registries' = [j \in Instances |->
           IF j = i THEN [registries[j] EXCEPT !.pending = FALSE, !.saved = "ok"]
           ELSE IF registries[j].saved = "ok" THEN [registries[j] EXCEPT !.saved = "stale"]
           ELSE registries[j]]
    /\ UNCHANGED Others

\* save_runs, lines 56-59: the file is rewritten in full
RR_Save(i) ==
    /\ mode = "runs" /\ registries[i].pending
    /\ files' = PutFile(files, storage_file, save_runs(registries[i].runs))
    /\ registries' = [j \in Instances |->
           IF j = i THEN [registries[j] EXCEPT !.pending = FALSE, !.saved = "ok"]
           ELSE IF registries[j].saved = "ok" THEN [registries[j] EXCEPT !.saved = "stale"]
           ELSE registries[j]]
    /\ UNCHANGED Others

\* save_runs, lines 60-61: the write raises and the error is printed; open()
\* raised and the file is as it was, or the dump raised and the file is cut
\* short
RR_SaveFails(i) ==
    /\ mode = "runs" /\ registries[i].pending
    /\ \/ UNCHANGED files
       \/ files' = PutFile(files, storage_file, TruncatedJson)
    /\ SetRegistry(i, [registries[i] EXCEPT !.pending = FALSE, !.saved = "failed"])
    /\ UNCHANGED Others

\* A second passes.  Only the steps of ReadsClock read the clock and a tick
\* commutes with every other step, so ticks are taken right before those.
ReadsClock(p) == MayBegin(p) \/ call[p].pc = "records"

Tick ==
    /\ clock < MaxClock
    /\ \E p \in Procs : ReadsClock(p)
    /\ clock' = clock + 1
    /\ UNCHANGED << mode, dirs, files, snapshot, registry, registries, call >>

Next ==
    \/ Tick
    \/ \E p \in Procs :
         \/ G_Begin(p) \/ G_Fetch(p) \/ G_Records(p) \/ G_WriteCsv(p)
         \/ G_ValidateCsv(p) \/ G_Config(p) \/ G_CopyImages(p) \/ G_Readme(p)
         \/ G_Zip(p) \/ G_ValidatePaths(p) \/ G_Finally(p)
         \/ G_IoError(p) \/ G_ZipIoError(p)
         \/ R_Begin(p) \/ R_GenerateCsv(p) \/ R_ValidateCsv(p) \/ R_Config(p)
         \/ R_CopyImages(p) \/ R_Readme(p) \/ R_Zip(p) \/ R_Cleanup(p)
         \/ R_Raise(p) \/ R_IoError(p) \/ R_ZipIoError(p)
         \/ V_Validate(p)

Spec == Init /\ [][Next]_vars

(***************************************************************************)
(* The data source adapter alone: fetch_gallery_data called on any state   *)
(* of temp_gallery_data.json and of the served-images path.                *)
(***************************************************************************)
\* the snapshot file may also be unreadable (open raises) or hold a JSON
\* value that is not an object
FetchSnapshots ==
    Snapshots \cup { [state |-> "unreadable"], [state |-> "array"] }

FetchServedChoices == SUBSET {"x.png", "y_img2img.png", "z_upscaled.PNG"}

\* the served-images path: no such path, an empty directory, a directory
\* with files, or a regular file
FetchInit ==
    /\ clock = 0
    /\ call = [p \in Procs |-> IdleCall]
    /\ registries = [i \in Instances |-> ClosedRegistry]
    /\ registry = <<>>
    /\ mode = "fetch"
    /\ snapshot \in FetchSnapshots
    /\ \/ dirs = BaseDirs \ {served_images_dir} /\ files = << >>
       \/ dirs = BaseDirs /\ files = << >>
       \/ dirs = BaseDirs /\ \E names \in FetchServedChoices : files = ServedFiles(names)
       \/ /\ dirs = BaseDirs \ {served_images_dir}
          /\ files = [q \in {served_images_dir} |-> Blob]

\* one fetch_gallery_data call: it returns a mapping or raises
F_Fetch(p) ==
    /\ mode = "fetch" /\ MayBegin(p)
    /\ IF ~WellFormed(snapshot) /\ scan_raises(dirs, files)
       THEN Set(p, Returned(call[p], RaisedResult))
       ELSE \E listing \in Listings(dirs, files) :
              Set(p, Returned(call[p],
                      [status |-> "returned",
                       value  |-> fetch_gallery_data(snapshot, dirs, files, listing)]))
    /\ UNCHANGED << mode, clock, dirs, files, snapshot, registry, registries >>

FetchNext == \E p \in Procs : F_Fetch(p)

FetchSpec == FetchInit /\ [][FetchNext]_vars

\* the calls made on the RunRegistry instances, in any interleaving
RunsNext ==
    \E i \in Instances :
        \/ RR_Construct(i) \/ RR_AddRun(i) \/ RR_DeleteRun(i)
        \/ RR_Save(i) \/ RR_SaveFails(i)

RunsSpec == RunsInit /\ [][RunsNext]_vars

(***************************************************************************)
(* Overlapping calls.  The Flask servers handle each request on a thread   *)
(* of its own, so a create_report_bundle call may begin while another is   *)
(* running; the steps of the calls interleave.                             *)
(***************************************************************************)
OverlapSnapshots ==
    { [state |-> "absent"],
      [state |-> "object",
       data  |-> << Entry("txt2img", << [filename |-> <<"x.png">>, prompt |-> "p"] >>) >>] }

OverlapInit ==
    /\ clock = 0
    /\ registries = [i \in Instances |-> ClosedRegistry]
    /\ dirs = BaseDirs
    /\ call = [p \in Procs |-> IdleCall]
    /\ \/ /\ mode = "gallery"
          /\ snapshot \in OverlapSnapshots
          /\ files = ServedFiles({"x.png"})
          /\ registry = <<>>
       \/ /\ mode = "registry"
          /\ snapshot = [state |-> "absent"]
          /\ registry \in {r \in Registries : RunIds(r) \in {{"r1"}, {"r1", "r2"}}}
          /\ files = OutputFiles({"a.png"})

\* a second passes between two reads of the clock
OverlapTick ==
    /\ clock < MaxClock
    /\ \E p \in Procs : call[p].pc \in {"idle", "records"}
    /\ clock' = clock + 1
    /\ UNCHANGED << mode, dirs, files, snapshot, registry, registries, call >>

OverlapNext ==
    \/ OverlapTick
    \/ \E p \in Procs :
         \/ G_Enter(p) \/ G_Fetch(p) \/ G_Records(p) \/ G_WriteCsv(p)
         \/ G_ValidateCsv(p) \/ G_Config(p) \/ G_CopyImages(p) \/ G_Readme(p)
         \/ G_Zip(p) \/ G_ValidatePaths(p) \/ G_Finally(p)
         \/ R_Enter(p) \/ R_GenerateCsv(p) \/ R_ValidateCsv(p) \/ R_Config(p)
         \/ R_CopyImages(p) \/ R_Readme(p) \/ R_Zip(p) \/ R_Cleanup(p)
         \/ R_Raise(p)

OverlapSpec == OverlapInit /\ [][OverlapNext]_vars

(***************************************************************************)
(* The synchronization endpoints: POST /api/runs (run_registry.py) and     *)
(* POST /api/gallery-data (test_api_standalone.py).  `registry` is the     *)
(* runs of the module's global RunRegistry, kept in the storage file.      *)
(***************************************************************************)
\* the JSON objects posted to /api/gallery-data
PostedGalleries ==
    { << Entry("txt2img", <<>>) >>,
      << Entry("txt2img", << [filename |-> <<"x.png">>, prompt |-> "p"] >>) >> }

\* request bodies: no body and no JSON content type, a JSON content type
\* with an empty body, the JSON texts null and {}, and a JSON object
EmptyPayloads ==
    { [body |-> "absent"], [body |-> "empty_body"], [body |-> "null"],
      [body |-> "empty_object"] }

RunPayloads == { [body |-> "object", data |-> d] : d \in AddChoices }

GalleryPayloads == { [body |-> "object", data |-> d] : d \in PostedGalleries }

\* request.json: the outcomes of Flask's Request.get_json().  Without a JSON
\* content type it returns None (before Flask 2.1) or raises an
\* HTTPException (BadRequest, in later releases UnsupportedMediaType); an
\* empty body under a JSON content type does not parse and raises
\* BadRequest; null and {} are falsy values
request_json(payload) ==
    CASE payload.body = "absent" ->
             { [raised |-> TRUE], [raised |-> FALSE, data |-> None] }
      [] payload.body = "empty_body" -> { [raised |-> TRUE] }
      [] payload.body \in {"null", "empty_object"} ->
             { [raised |-> FALSE, data |-> None] }
      [] OTHER -> { [raised |-> FALSE, data |-> << payload.data >>] }

\* the two error responses of the routes
NoDataResponse == [status |-> "error", message |-> "No data provided", code |-> 400]

ExceptionResponse == [status |-> "error", message |-> "str(e)", code |-> 500]

Posted(c, route, payload, response) ==
    Returned([c EXCEPT !.input = [route |-> route, payload |-> payload]], response)

\* POST /api/runs
A_PostRuns(p) ==
    /\ mode = "api" /\ MayBegin(p)
    /\ \E payload \in EmptyPayloads \cup RunPayloads :
         \E got \in request_json(payload) :
            IF got.raised
            THEN /\ Set(p, Posted(call[p], "/api/runs", payload, ExceptionResponse))
                 /\ UNCHANGED << registry, files >>
            ELSE IF got.data = None
            THEN /\ Set(p, Posted(call[p], "/api/runs", payload, NoDataResponse))
                 /\ UNCHANGED << registry, files >>
            ELSE LET run_config == RunConfigOf(got.data[1])
                 IN  /\ run_config.run_id \in RunIds(registry) \/ Len(registry) < MaxRuns
                     /\ registry' = add_run(registry, run_config)
                     /\ files' = PutFile(files, storage_file,
                                         save_runs(add_run(registry, run_config)))
                     /\ Set(p, Posted(call[p], "/api/runs", payload,
                                [status |-> "success", run_id |-> run_config.run_id,
                                 message |-> "Run added successfully", code |-> 200]))
    /\ UNCHANGED << mode, clock, dirs, snapshot, registries >>

\* POST /api/gallery-data
A_PostGalleryData(p) ==
    /\ mode = "api" /\ MayBegin(p)
    /\ \E payload \in EmptyPayloads \cup GalleryPayloads :
         \E got \in request_json(payload) :
            IF got.raised
            THEN /\ Set(p, Posted(call[p], "/api/gallery-data", payload, ExceptionResponse))
                 /\ UNCHANGED snapshot
            ELSE IF got.data = None
            THEN /\ Set(p, Posted(call[p], "/api/gallery-data", payload, NoDataResponse))
                 /\ UNCHANGED snapshot
            ELSE /\ snapshot' = [state |-> "object", data |-> got.data[1]]
                 /\ Set(p, Posted(call[p], "/api/gallery-data", payload,
                            [status |-> "success",
                             message |-> "Gallery data updated successfully",
                             code |-> 200]))
    /\ UNCHANGED << mode, clock, dirs, files, registry, registries >>

\* the services start with the registry loaded from its storage file
ApiInit ==
    /\ clock = 0
    /\ dirs = BaseDirs
    /\ call = [p \in Procs |-> IdleCall]
    /\ registries = [i \in Instances |-> ClosedRegistry]
    /\ mode = "api"
    /\ snapshot \in OverlapSnapshots
    /\ registry \in Registries
    /\ files = IF registry = <<>> THEN << >>
               ELSE [q \in {storage_file} |-> save_runs(registry)]

ApiNext == \E p \in Procs : A_PostRuns(p) \/ A_PostGalleryData(p)

ApiSpec == ApiInit /\ [][ApiNext]_vars

(***************************************************************************)
(* The image copy step on file names of every kind: the name of a file     *)
(* that is there, of one that is not, of a directory, and a name with ".." *)
(* components.                                                             *)
(***************************************************************************)
\* the content of a file that lies outside the image directories
Secret == [kind |-> "secret"]

secret_txt == <<"secret.txt">>

album_dir == Append(served_images_dir, "album")

\* image dicts of the snapshot, by file name
CopyPool ==
    { [filename |-> <<"x.png">>], [filename |-> <<"gone.png">>],
      [filename |-> <<"album">>],
      [filename |-> <<"..", "..", "..", "secret.txt">>] }

CopySnapshots ==
    { [state |-> "absent"] }
        \cup { [state |-> "object", data |-> << Entry("txt2img", l) >>]
                 : l \in SeqsUpTo(CopyPool, MaxImages) }

\* runs of the registry, by the file names of their images
CopyRuns ==
    { [ run_id |-> "r1", timestamp |-> 1, model |-> "m1", prompt |-> "p",
        generation_type |-> "txt2img", generated_images |-> << <<"a.png">> >> ],
      [ run_id |-> "r2", timestamp |-> 2, model |-> "m2", prompt |-> "q",
        generation_type |-> "img2img",
        generated_images |-> << <<"..", "secret.txt">>, <<"a.png">> >> ] }

CopyRegistries ==
    {r \in SeqsUpTo(CopyRuns, MaxRuns) : Cardinality(RunIds(r)) = Len(r)}

\* the image files named, and one file next to the image directory
FilesWithSecret(images, secret) ==
    [q \in images \cup {secret} |-> IF q = secret THEN Secret ELSE Blob]

CopyInit ==
    /\ clock = 0
    /\ call = [p \in Procs |-> IdleCall]
    /\ registries = [i \in Instances |-> ClosedRegistry]
    /\ dirs = BaseDirs \cup {album_dir}
    /\ \/ /\ mode = "gallery"
          /\ snapshot \in CopySnapshots
          /\ registry = <<>>
          /\ \E names \in SUBSET {"x.png"} :
               files = FilesWithSecret({Append(served_images_dir, n) : n \in names},
                                       secret_txt)
       \/ /\ mode = "registry"
          /\ snapshot = [state |-> "absent"]
          /\ registry \in CopyRegistries
          /\ \E names \in SUBSET {"a.png"} :
               files = FilesWithSecret({Append(output_dir, n) : n \in names},
                                       Append(Dirname(output_dir), "secret.txt"))

CopyNext ==
    \E p \in Procs :
        \/ G_Begin(p) \/ G_Fetch(p) \/ G_Records(p) \/ G_WriteCsv(p)
        \/ G_ValidateCsv(p) \/ G_Config(p) \/ G_CopyImages(p) \/ G_Readme(p)
        \/ G_Zip(p) \/ G_ValidatePaths(p) \/ G_Finally(p) \/ G_IoError(p)
        \/ R_Begin(p) \/ R_GenerateCsv(p) \/ R_ValidateCsv(p) \/ R_Config(p)
        \/ R_CopyImages(p) \/ R_Readme(p) \/ R_Zip(p) \/ R_Cleanup(p)
        \/ R_Raise(p) \/ R_IoError(p)

CopySpec == CopyInit /\ [][CopyNext]_vars

(***************************************************************************)
(* Properties.                                                             *)
(***************************************************************************)
Finished(p) == call[p].pc = "done"

GalleryDone(p) == mode = "gallery" /\ Finished(p)

RegistryDone(p) == mode = "registry" /\ Finished(p)

Quiet == \A q \in Procs : call[q].pc \in {"idle", "done"}

StagingGone(p) == ~Exists(dirs, files, call[p].temp_dir)

\* C1: in the gallery variant, when a step of the try block raises (record
\* conversion, CSV write, config, image copy, README, zipping), the call
\* returns an error result carrying the error text instead of raising, and
\* the staging directory is gone when it has returned.
C1_ErrorResultNoEscape ==
    \A p \in Procs :
        GalleryDone(p) =>
            /\ call[p].result.status \in {"success", "error"}
            /\ call[p].raised # "" =>
                   /\ call[p].result.status = "error"
                   /\ "error" \in DOMAIN call[p].result
                   /\ (Quiet => StagingGone(p))

C1_Witness ==
    \E p \in Procs :
        /\ GalleryDone(p) /\ call[p].raised = "conversion"
        /\ call[p].result.status = "error" /\ StagingGone(p)

\* C2: in both generators, at the moment a create_report_bundle call ends
\* (by returning a result or by raising), the staging directory it created
\* does not exist.
C2_StagingRemoved ==
    [][ \A p \in Procs :
          (call[p].pc # "done" /\ call'[p].pc = "done" /\ call'[p].temp_dir # None)
              => ~Exists(dirs', files', call'[p].temp_dir) ]_vars

C2_Witness ==
    /\ mode = "registry"
    /\ \E p, q \in Procs :
         /\ Finished(p) /\ call[p].result.status = "raised" /\ call[p].temp_dir # None
         /\ Finished(q) /\ call[q].result.status = "returned"
         /\ StagingGone(p) /\ StagingGone(q)

\* C3: in the registry variant, once create_report_bundle has ended (by
\* return or by raising after its staging directory was made), none of
\* temp_results.csv, temp_config.json, temp_README.md is left on disk.
C3_TempFilesRemoved ==
    (mode = "registry" /\ Quiet /\ \E p \in Procs : Finished(p) /\ call[p].temp_dir # None)
        => {temp_results_csv, temp_config_json, temp_README_md} \cap DOMAIN files = {}

\* C4: create_report_bundle never reports success for a results.csv that
\* its own schema validation found invalid.
C4_FailFastValidation ==
    \A p \in Procs :
        (GalleryDone(p) /\ call[p].result.status = "success")
            => call[p].result.csv_validation.valid

\* the rows of the results.csv stored in the archive a call produced
BundledRows(p) == call[p].produced.entries[<<"results.csv">>].rows

\* C5: after a successful gallery bundle every relative_path of results.csv
\* is an entry name of the produced ZIP, and path_validation says so.
C5_PathsResolve ==
    \A p \in Procs :
        (GalleryDone(p) /\ call[p].result.status = "success")
            => /\ \A i \in DOMAIN BundledRows(p) :
                     BundledRows(p)[i]["relative_path"] \in ZipNames(call[p].produced)
               /\ call[p].result.path_validation.valid

\* the records of a finished gallery call (their paths and ids do not depend
\* on the clock)
RecordsOf(p) == create_csv_records(call[p].input, 0)

SourcePresent(record) == Join(served_images_dir, record.filename) \in DOMAIN files

CsvWritten(p) ==
    /\ mode = "gallery"
    /\ call[p].pc \in {"validate_csv", "config", "copy", "readme", "zip", "validate_paths"}

ResultsCsv(p) == files[Append(call[p].temp_dir, "results.csv")]

\* C7 (as amended): the header write_csv writes has every canonical required
\* column, in canonical order.  For an empty list it is exactly those 15
\* columns; for a non-empty list they are followed by the five optional
\* columns of the record shape, whichever optional fields are populated.
C7_HeaderOfWriteCsv ==
    \A p \in Procs :
        CsvWritten(p) =>
            ResultsCsv(p).header =
                IF call[p].records = <<>> THEN RequiredColumns
                ELSE RequiredColumns \o OptionalFields

\* C7 (as claimed): the header is exactly the 15 canonical required columns,
\* no column missing and no extra column, for every list of records.
C7_HeaderExactlyRequired ==
    \A p \in Procs :
        CsvWritten(p) =>
            /\ Range(ResultsCsv(p).header) = Range(RequiredColumns)
            /\ Len(ResultsCsv(p).header) = Len(RequiredColumns)

C7_Witness ==
    \E p \in Procs :
        /\ CsvWritten(p) /\ Len(call[p].records) = 2
        /\ call[p].records[1].denoising_strength # None
        /\ call[p].records[1].lora_models = None
        /\ Len(ResultsCsv(p).header) = 20

\* C8: for every non-empty list of records, validating the file written by
\* write_csv yields valid, no missing column and a row count equal to the
\* number of records.
C8_RoundTripValid ==
    \A p \in Procs :
        (mode = "gallery" /\ call[p].csv_validation # None /\ call[p].records # <<>>)
            => /\ call[p].csv_validation.valid
               /\ call[p].csv_validation.missing_columns = {}
               /\ call[p].csv_validation.row_count = Len(call[p].records)

\* a CSV file that opens and parses
Readable(fs, path) ==
    /\ path \in DOMAIN fs
    /\ fs[path].kind = "csv"
    /\ ~ReaderRaises(fs[path])

\* C9: for a CSV that can be read, with header set H, validate_csv_schema
\* returns missing_columns = Required \ H, extra_columns = H \ Required and
\* valid iff Required is a subset of H (extra columns never make it
\* invalid); for a file that cannot be read it returns valid = FALSE with an
\* error field instead of raising.
C9_SchemaValidation ==
    \A p \in Procs :
        (mode = "validate" /\ Finished(p)) =>
            LET res == call[p].result
                H   == Range(ActualColumns(files[external_csv]))
                Req == Range(RequiredColumns)
            IN  IF Readable(files, external_csv)
                THEN /\ "error" \notin DOMAIN res
                     /\ res.missing_columns = Req \ H
                     /\ res.extra_columns = H \ Req
                     /\ res.valid <=> (Req \subseteq H)
                ELSE /\ res.valid = FALSE
                     /\ "error" \in DOMAIN res

C9_Witness ==
    \E p \in Procs :
        /\ mode = "validate" /\ Finished(p)
        /\ ~call[p].result.valid
        /\ "error" \notin DOMAIN call[p].result
        /\ call[p].result.missing_columns = {"negative_prompt", "model_name"}
        /\ call[p].result.extra_columns = {"comment"}

Succeeded(p) ==
    /\ Finished(p) /\ call[p].produced # None
    /\ call[p].result.status \in {"success", "returned"}

\* the archive of the call is written outside its staging directory
OutsideStaging(p) == ~IsPrefix(call[p].temp_dir, call[p].output_path)

\* C10: two create_report_bundle calls over unchanged inputs (the same
\* gallery data or the same runs, the same source image files), each
\* writing its archive outside its staging directory, produce ZIPs with
\* equal sets of entry names.
C10_Idempotent ==
    \A p, q \in Procs :
        (/\ Succeeded(p) /\ Succeeded(q) /\ call[p].input = call[q].input
         /\ OutsideStaging(p) /\ OutsideStaging(q))
            => ZipNames(call[p].produced) = ZipNames(call[q].produced)

C10_Witness ==
    \E p, q \in Procs :
        /\ p # q /\ Succeeded(p) /\ Succeeded(q)
        /\ call[p].input = call[q].input
        /\ call[p].temp_dir # call[q].temp_dir
        /\ OutsideStaging(p) /\ OutsideStaging(q)
        /\ Cardinality(ZipNames(call[p].produced)) > 3

\* C11: in the registry variant, a call with no runs to include (the
\* registry is empty, or none of the run_ids is stored) ends with an error
\* result (the ValueError of the call, an error response of the route), on a
\* step that writes no file (an existing report.zip stays as it is) and
\* makes no directory; no staging directory of the call exists afterwards.
\* Only such a call ends that way at its first step.
C11_NoRunsRefused ==
    [][ \A p \in Procs :
          (mode = "registry" /\ call[p].pc = "idle" /\ call'[p].pc # "idle") =>
              LET none == SelectRuns(registry, call'[p].run_ids) = <<>>
              IN  /\ none <=> call'[p].pc = "done"
                  /\ none =>
                       /\ call'[p].result.status = "raised"
                       /\ route_response(call'[p].result).status = "error"
                       /\ files' = files
                       /\ dirs' = dirs
                       /\ \A d \in dirs' :
                            ~IsPrefix(Append(cwd, "temp_report_bundle_" \o Now(clock)), d) ]_vars

C11_Witness ==
    \E p \in Procs :
        /\ RegistryDone(p) /\ call[p].raised = "no runs"
        /\ call[p].run_ids = <<"zz">> /\ registry # <<>>
        /\ report_zip \in DOMAIN files
        /\ ZipNames(files[report_zip]) # {}

\* the calls that ended with an error outcome after they had an output path
EndedInError(p) ==
    /\ Finished(p)
    /\ call[p].output_path # None
    /\ call[p].result.status \in {"error", "raised"}

\* C12: when a create_report_bundle call has ended with an error outcome,
\* the output path holds what it held when the call began (nothing, or the
\* file that was there), as long as no later call has begun.
C12_NoPartialBundle ==
    \A p \in Procs :
        (EndedInError(p) /\ \A q \in Procs : q > p => call[q].pc = "idle")
            => Held(files, call[p].output_path) = call[p].output_before

\* the calls that have begun and not ended
Running(p) == call[p].pc \notin {"idle", "done"}

\* C13: two create_report_bundle calls that run at the same time use
\* different staging directories.
C13_DistinctStaging ==
    \A p, q \in Procs :
        (p # q /\ Running(p) /\ Running(q)) => call[p].temp_dir # call[q].temp_dir

\* the instances whose calls have all returned
Settled(i) == registries[i].open /\ ~registries[i].pending

\* C14: a RunRegistry is a map keyed by run_id.  After any sequence of
\* add_run and delete_run calls, get_run(id) is the config of the most
\* recent add_run with that id if no delete_run(id) followed it and None
\* otherwise, and no run_id has two entries.
C14_RegistryIsMap ==
    \A i \in Instances :
        registries[i].open =>
            /\ Cardinality(RunIds(registries[i].runs)) = Len(registries[i].runs)
            /\ \A id \in RegistryIds :
                 IF registries[i].expect[id] = << >>
                 THEN get_run(registries[i].runs, id) = None
                 ELSE get_run(registries[i].runs, id) = registries[i].expect[id][1]

C14_Witness ==
    \E i \in Instances :
        /\ Settled(i)
        /\ get_run(registries[i].runs, "r1") = Resubmitted
        /\ Len(registries[i].runs) = 2
        /\ registries[i].runs[1].run_id = "r1"
        /\ get_run(registries[i].runs, "zz") = None

\* the configs an instance holds, by what was added and deleted
Stored(i) == {registries[i].expect[id][1] :
                  id \in {x \in RegistryIds : registries[i].expect[x] # << >>}}

\* C15: get_all_runs returns each stored config exactly once, with
\* timestamps non-increasing from first to last.
C15_NewestFirst ==
    \A i \in Instances :
        registries[i].open =>
            LET all == get_all_runs(registries[i].runs)
            IN  /\ Range(all) = Stored(i)
                /\ Len(all) = Cardinality(Stored(i))
                /\ \A k \in 1..(Len(all) - 1) : all[k].timestamp >= all[k + 1].timestamp

C15_Witness ==
    \E i \in Instances :
        /\ Settled(i)
        /\ Len(registries[i].runs) = 2
        /\ registries[i].runs[1].timestamp < registries[i].runs[2].timestamp
        /\ get_all_runs(registries[i].runs)[1] = registries[i].runs[2]

\* the steps that are a delete_run call of instance i taking effect in memory
DeleteStep(i) ==
    /\ registries[i].open /\ ~registries[i].pending
    /\ registries'[i] # registries[i]
    /\ registries'[i].returned # None
    /\ registries'[i].saved = registries[i].saved

\* the steps in which the save_runs of a delete_run call writes the file
DeleteSaved(i) ==
    /\ registries[i].pending /\ registries[i].returned # None
    /\ ~registries'[i].pending /\ registries'[i].saved = "ok"

SoleWriter(i) == \A j \in Instances \ {i} : registries[j].saved = "none"

\* C17: with a single writer whose writes succeed, after any sequence of
\* add_run and delete_run calls the storage file holds exactly self.runs:
\* a RunRegistry constructed on the file has the same run_ids, with equal
\* configs, in the same order.
C17_PersistenceRoundTrip ==
    \A i \in Instances :
        (Settled(i) /\ SoleWriter(i) /\ registries[i].saved \in {"none", "ok"}) =>
            /\ load_runs(files) = registries[i].runs
            /\ registries[i].saved = "ok" =>
                  files[storage_file] = save_runs(registries[i].runs)

C17_Witness ==
    \E i, j \in Instances :
        /\ i # j /\ Settled(i) /\ SoleWriter(i) /\ registries[i].saved = "ok"
        /\ Len(registries[i].runs) = 2
        /\ Settled(j) /\ registries[j].runs = registries[i].runs

\* C18: with several instances on one storage file and every write
\* succeeding, the file holds the map of the instance that saved last; a run
\* that only another instance holds is not in the file.
C18_LastWriterWins ==
    (\A k \in Instances : registries[k].saved # "failed") =>
        \A i \in Instances :
            (Settled(i) /\ registries[i].saved = "ok") =>
                /\ load_runs(files) = registries[i].runs
                /\ \A j \in Instances \ {i} :
                     \A id \in RunIds(registries[j].runs) \ RunIds(registries[i].runs) :
                         id \notin RunIds(load_runs(files))

C18_Witness ==
    \E i, j \in Instances :
        /\ i # j
        /\ Settled(i) /\ registries[i].saved = "ok"
        /\ Settled(j) /\ registries[j].saved = "stale"
        /\ "r1" \in RunIds(registries[j].runs)
        /\ "r1" \notin RunIds(registries[i].runs)
        /\ RunIds(load_runs(files)) = {"r2"}

FetchDone(p) == mode = "fetch" /\ Finished(p)

Fetched(p) == FetchDone(p) /\ call[p].result.status = "returned"

\* all image dicts of a mapping
ImagesOf(data) == Concat([i \in DOMAIN data |-> data[i].images])

\* the image files of the served-images directory
ServedImages ==
    {n \in {"x.png", "y_img2img.png", "z_upscaled.PNG", "notes.txt"} :
        Append(served_images_dir, n) \in DOMAIN files /\ NameInfo(n).image}

\* C19: fetch_gallery_data returns the content of the snapshot file, as it
\* is and without any scanned image added, iff the file is there,
\* deserializes and is an object with one of the keys txt2img, img2img,
\* extras, whatever the served-images directory holds.  Otherwise it
\* returns the scan of the directory: the three keys, and one record per
\* image file of the directory and no other.
C19_ResolutionOrder ==
    \A p \in Procs :
        Fetched(p) =>
            LET value == call[p].result.value
            IN  IF WellFormed(snapshot)
                THEN value = snapshot.data
                ELSE /\ [i \in DOMAIN value |-> value[i].key] = <<"txt2img", "img2img", "extras">>
                     /\ Len(ImagesOf(value)) = Cardinality(ServedImages)
                     /\ {img.filename : img \in Range(ImagesOf(value))}
                            = {<<n>> : n \in ServedImages}
                     /\ \A i \in DOMAIN value :
                          \A k \in DOMAIN value[i].images :
                              /\ value[i].images[k] = ScannedRecord(value[i].images[k].filename[1])
                              /\ Classify(value[i].images[k].filename[1]) = value[i].key

C19_Witness ==
    \E p, q \in Procs :
        /\ Fetched(p) /\ WellFormed(snapshot) /\ ServedImages # {}
        /\ Len(ImagesOf(call[p].result.value)) = 1
        /\ Fetched(q) /\ call[q].result.value = call[p].result.value

\* C20: for every state of the snapshot file and for a served-images
\* directory that is absent, empty or populated, fetch_gallery_data returns
\* a mapping and does not raise; when both sources are absent the mapping
\* has txt2img, img2img and extras, all empty.
C20_AdapterNeverFails ==
    \A p \in Procs :
        (FetchDone(p) /\ served_images_dir \notin DOMAIN files) =>
            /\ call[p].result.status = "returned"
            /\ \A i \in DOMAIN call[p].result.value :
                 DOMAIN call[p].result.value[i] = {"key", "images"}
            /\ (snapshot.state = "absent" /\ served_images_dir \notin dirs) =>
                 call[p].result.value =
                     << Entry("txt2img", <<>>), Entry("img2img", <<>>), Entry("extras", <<>>) >>

C20_Witness ==
    \E p \in Procs :
        /\ FetchDone(p) /\ call[p].result.status = "returned"
        /\ snapshot.state = "absent" /\ served_images_dir \notin dirs
        /\ served_images_dir \notin DOMAIN files
        /\ ImagesOf(call[p].result.value) = <<>>

\* the calls of the registry variant that returned the path of an archive
Bundled(p) == RegistryDone(p) /\ call[p].result.status = "returned"

\* C21: in the registry variant, every file name of the image_paths column
\* of every row of the bundled results.csv is in the ZIP as images/<name>,
\* whatever runs are selected and whatever the output directory holds.
C21_ImagePathsResolve ==
    \A p \in Procs :
        Bundled(p) =>
            \A i \in DOMAIN BundledRows(p) :
                \A k \in DOMAIN BundledRows(p)[i]["image_paths"] :
                    (<<"images">> \o BundledRows(p)[i]["image_paths"][k])
                        \in ZipNames(call[p].produced)

\* the path a successful call reports
ReportPath(p) ==
    IF call[p].result.status = "success" THEN call[p].result.report_path
    ELSE call[p].result.zip_path

TopLevelNames == { <<"results.csv">>, <<"config.json">>, <<"README.md">> }

\* C22: when a create_report_bundle call has reported success (whatever
\* output_filename the caller gave, in the gallery variant) and has returned,
\* and no later call has begun, a ZIP file is at the reported path and has
\* the entries results.csv, config.json and README.md.
C22_ReportExists ==
    \A p \in Procs :
        (/\ mode \in {"gallery", "registry"}
         /\ Finished(p) /\ call[p].result.status \in {"success", "returned"}
         /\ \A q \in Procs : q > p => call[q].pc = "idle")
            => /\ ReportPath(p) \in DOMAIN files
               /\ files[ReportPath(p)].kind = "zip"
               /\ TopLevelNames \subseteq ZipNames(files[ReportPath(p)])

GallerySucceeded(p) == GalleryDone(p) /\ call[p].result.status = "success"

\* the lists of a mapping, and the number of images before list i
ListsOf(data) == [i \in DOMAIN data |-> data[i].images]

Before(data, i) == SumLen(SubSeq(ListsOf(data), 1, i - 1))

\* C23: a successful gallery call reports total_images = the sum of the
\* lengths of the lists of the mapping; results.csv has one row per image, in
\* the order of the mapping, with generation_type the key of its list,
\* batch_index its position in that list and relative_path =
\* grids/<generation_type>/<filename>; generation_types is the set of the
\* keys whose list is not empty.
C23_RowsOfMapping ==
    \A p \in Procs :
        GallerySucceeded(p) =>
            LET data == call[p].input
                rows == BundledRows(p)
            IN  /\ call[p].result.total_images = SumLen(ListsOf(data))
                /\ Len(rows) = SumLen(ListsOf(data))
                /\ \A i \in DOMAIN data :
                     \A j \in DOMAIN data[i].images :
                         LET row == rows[Before(data, i) + j]
                         IN  /\ row["generation_type"] = data[i].key
                             /\ row["batch_index"] = ToString(j - 1)
                             /\ row["relative_path"] =
                                    <<"grids", data[i].key>> \o row["filename"]
                /\ call[p].result.generation_types =
                       {data[i].key : i \in {k \in DOMAIN data : data[k].images # <<>>}}

C23_Witness ==
    \E p \in Procs :
        /\ GallerySucceeded(p)
        /\ Len(call[p].input) = 3
        /\ call[p].result.total_images = 2
        /\ call[p].result.generation_types = {"txt2img", "img2img"}
        /\ BundledRows(p)[2]["batch_index"] = "0"
        /\ BundledRows(p)[2]["relative_path"] = <<"grids", "img2img", "y_img2img.png">>

\* C24: within one bundle no two records made by create_csv_records, and so
\* no two rows of results.csv, have the same id, for every gallery mapping
\* the adapter returns.
C24_UniqueIds ==
    \A p \in Procs :
        mode = "gallery" =>
            /\ \A i, j \in DOMAIN call[p].records :
                 i # j => call[p].records[i].id # call[p].records[j].id
            /\ GallerySucceeded(p) =>
                 \A i, j \in DOMAIN BundledRows(p) :
                     i # j => BundledRows(p)[i]["id"] # BundledRows(p)[j]["id"]

\* C25: every record made from a snapshot the adapter accepts has a
\* generation_type among txt2img, img2img and extras, and every directory
\* under grids/ in a bundle has one of those three names.
C25_GenerationTypeEnum ==
    \A p \in Procs :
        (mode = "gallery" /\ WellFormed(snapshot)) =>
            /\ \A i \in DOMAIN call[p].records :
                 call[p].records[i].generation_type \in GenTypes
            /\ GallerySucceeded(p) =>
                 \A n \in ZipNames(call[p].produced) :
                     (Len(n) > 2 /\ n[1] = "grids") => n[2] \in GenTypes

\* the steps that are a request to one of the two endpoints with an absent
\* or empty JSON payload
EmptyPost(p) ==
    /\ mode = "api" /\ call[p].pc = "idle" /\ call'[p].pc = "done"
    /\ call'[p].input.payload \in EmptyPayloads

\* C26: POST /api/runs and POST /api/gallery-data with an absent or empty
\* JSON payload answer with a 4xx response that has status "error" and a
\* message, and change neither the run registry (memory and storage file) nor
\* the gallery snapshot file.
C26_InputErrorsAnswered ==
    [][ \A p \in Procs :
          EmptyPost(p) =>
              /\ call'[p].result.code \in 400..499
              /\ call'[p].result.status = "error"
              /\ "message" \in DOMAIN call'[p].result
              /\ registry' = registry
              /\ files' = files
              /\ snapshot' = snapshot ]_vars

\* the gallery calls that have run copy_images_to_bundle and not returned
Copied(p) == mode = "gallery" /\ call[p].copy_info # None

InMissing(p, record) ==
    \E k \in DOMAIN call[p].copy_info.missing_files :
        call[p].copy_info.missing_files[k].path = record.relative_path

InCopied(p, record) == record.relative_path \in Range(call[p].copy_info.copied_files)

\* C27: copy_images_to_bundle puts each record in exactly one of
\* copied_files and missing_files, a record being in missing_files iff its
\* source is not a file that can be copied (it is absent, or the copy fails:
\* it is a directory); so in a success result
\* copied_files + len(missing_files) = total_images.
C27_CopyAccounting ==
    \A p \in Procs :
        /\ Copied(p) =>
             /\ Len(call[p].copy_info.copied_files) + Len(call[p].copy_info.missing_files)
                    = Len(call[p].records)
             /\ \A i \in DOMAIN call[p].records :
                  LET rec == call[p].records[i]
                  IN  /\ InCopied(p, rec) # InMissing(p, rec)
                      /\ InMissing(p, rec) <=> ~SourcePresent(rec)
        /\ GallerySucceeded(p) =>
             call[p].result.copied_files + Len(call[p].result.missing_files)
                 = call[p].result.total_images

C27_Witness ==
    \E p \in Procs :
        /\ GallerySucceeded(p)
        /\ call[p].result.total_images = 2
        /\ call[p].result.copied_files = 1
        /\ call[p].result.missing_files =
               << [path |-> <<"grids", "txt2img", "album">>, reason |-> "copy failed"] >>

\* the run_ids of a call that are stored in the registry, in the order given
Known(p) == SelectSeq(call[p].run_ids, LAMBDA id : id \in RunIds(registry))

\* the runs the archive of a call describes: config.json, and results.csv by
\* run_id
ConfigRuns(p) == call[p].produced.entries[<<"config.json">>].runs

RowIds(p) == [i \in DOMAIN BundledRows(p) |-> BundledRows(p)[i]["run_id"]]

\* C28: in the registry variant, a call with a non-empty run_ids bundles
\* exactly the runs of run_ids that the registry holds, in the order given,
\* unknown ids being skipped (and, unless an I/O step fails, it does produce
\* a bundle when one id is known); a call with empty run_ids (or None)
\* bundles every run of the registry, newest first.
C28_RunSelection ==
    \A p \in Procs :
        /\ Bundled(p) =>
             /\ RowIds(p) = [i \in DOMAIN ConfigRuns(p) |-> ConfigRuns(p)[i].run_id]
             /\ \A i \in DOMAIN ConfigRuns(p) : ConfigRuns(p)[i] \in Range(registry)
             /\ IF call[p].run_ids # <<>>
                THEN RowIds(p) = Known(p)
                ELSE /\ Range(ConfigRuns(p)) = Range(registry)
                     /\ Len(ConfigRuns(p)) = Len(registry)
                     /\ \A i \in 1..(Len(ConfigRuns(p)) - 1) :
                          ConfigRuns(p)[i].timestamp >= ConfigRuns(p)[i + 1].timestamp
        /\ (RegistryDone(p) /\ Known(p) # <<>> /\ call[p].raised # "io")
               => call[p].result.status = "returned"

C28_Witness ==
    \E p, q \in Procs :
        /\ Bundled(p) /\ call[p].run_ids = <<"r2", "r1">>
        /\ registry[1].run_id = "r1"
        /\ RowIds(p) = <<"r2", "r1">>
        /\ Bundled(q) /\ call[q].run_ids = <<"zz", "r2">>
        /\ RowIds(q) = <<"r2">>

\* C29: when create_report_bundle calls of the registry variant overlap,
\* each call either fails or returns a bundle whose results.csv, config.json
\* and README.md describe the runs it selected itself, and no call that has
\* runs to bundle fails (no I/O step failing by itself).
C29_ConcurrentIsolation ==
    \A p \in Procs :
        RegistryDone(p) =>
            IF call[p].result.status = "returned"
            THEN /\ call[p].produced.entries[<<"results.csv">>] = generate_csv(call[p].input)
                 /\ call[p].produced.entries[<<"config.json">>] = ConfigOf(call[p].input)
                 /\ call[p].produced.entries[<<"README.md">>].total_runs = Len(call[p].input)
            ELSE call[p].raised = "no runs"

\* the step in which a call runs its copy_images_to_bundle
CopyStep(p) ==
    /\ call[p].pc \in {"copy", "r_images"}
    /\ call'[p].pc \in {"readme", "r_readme"}

\* the source paths the copy loop of the call opens: those that are files
SourcesRead(p) ==
    {s \in IF mode = "gallery"
           THEN {Join(served_images_dir, call[p].records[i].filename)
                    : i \in DOMAIN call[p].records}
           ELSE {Join(output_dir, n) : n \in Range(ImageFilenames(call[p].runs))}
       : s \in DOMAIN files}

SourceDir == IF mode = "gallery" THEN served_images_dir ELSE output_dir

\* C30: for every file name of a gallery record or of a run's
\* generated_images, the image copy step reads only files inside the
\* served-images (output) directory, and creates or changes files and
\* directories only inside the staging directory of the call; every entry of
\* the resulting ZIP other than results.csv, config.json and README.md lies
\* under grids/ or images/.
C30_StagingContainment ==
    [][ \A p \in Procs :
          /\ CopyStep(p) =>
               /\ \A s \in SourcesRead(p) : StrictlyUnder(SourceDir, s)
               /\ \A q \in DOMAIN files' :
                    Held(files', q) # Held(files, q) => StrictlyUnder(call[p].temp_dir, q)
               /\ \A d \in dirs' \ dirs : IsPrefix(call[p].temp_dir, d)
          /\ (call'[p].pc = "done" /\ call'[p].produced # None) =>
               \A n \in ZipNames(call'[p].produced) \ TopLevelNames :
                   Len(n) > 1 /\ n[1] \in {"grids", "images"} ]_vars

=============================================================================
